---------------------------- MODULE Spec2Model ----------------------------
(***************************************************************************)
(* Apple code-signing data decoders of tugger-apple-codesign (macho.rs).   *)
(*                                                                         *)
(* Bytes are naturals 0..255 and a buffer is a sequence of bytes.  A u32   *)
(* is a pair <<hi, lo>> of 16-bit halves (value hi * 65536 + lo), and a    *)
(* usize / u64 quantity is the same pair with an unbounded hi, so that no  *)
(* intermediate value leaves the range of the model checker's integers    *)
(* while the program's 32-bit and 64-bit widths are kept exactly.          *)
(*                                                                         *)
(* The outcome of a call is a record: [tag |-> "Ok", val |-> ...],         *)
(* [tag |-> "Err", err |-> ...] or [tag |-> "Panic", why |-> ...].         *)
(***************************************************************************)
EXTENDS Integers, Sequences, FiniteSets, TLC

VARIABLES
    data,     \* the byte buffer handed to a decoder
    result,   \* outcome of the last call
    op,       \* name of the last call, "none" before any
    build,    \* "debug" (overflow checks on) or "release" (wrapping)
    wire,     \* a u32 wire value handed to From<u32>
    val       \* an enum value handed to Into<u32>

vars == <<data, result, op, build, wire, val>>

---------------------------------------------------------------------------
(* Wide arithmetic on <<hi, lo>> pairs, base 65536.                        *)

Base == 65536

Norm(hi, lo) == <<hi + (lo \div Base), lo % Base>>

WNat(n) == <<n \div Base, n % Base>>

WAdd(x, y) == Norm(x[1] + y[1], x[2] + y[2])

\* x * k for a factor k <= 255
WMul8(x, k) == Norm(x[1] * k, x[2] * k)

WLt(x, y) == x[1] < y[1] \/ (x[1] = y[1] /\ x[2] < y[2])

WLe(x, y) == x = y \/ WLt(x, y)

\* x - y for y <= x
WSub(x, y) ==
    IF x[2] >= y[2] THEN <<x[1] - y[1], x[2] - y[2]>>
    ELSE <<x[1] - y[1] - 1, x[2] + Base - y[2]>>

\* the value as a natural; only for values known to be small
ToNat(x) == x[1] * Base + x[2]

\* truncation of a wide value to 32 bits
Wrap32(x) == <<x[1] % Base, x[2]>>

FitsU32(x) == x[1] < Base

Ok(v) == [tag |-> "Ok", val |-> v]
Err(e) == [tag |-> "Err", err |-> e]
Panic(w) == [tag |-> "Panic", why |-> w]
NoResult == [tag |-> "None"]

---------------------------------------------------------------------------
(* Slot constants and the CodeSigningSlot enum.                            *)

CSSLOT_CODEDIRECTORY == <<0, 0>>
CSSLOT_INFOSLOT == <<0, 1>>
CSSLOT_REQUIREMENTS == <<0, 2>>
CSSLOT_RESOURCEDIR == <<0, 3>>
CSSLOT_APPLICATION == <<0, 4>>
CSSLOT_ENTITLEMENTS == <<0, 5>>
CSSLOT_ALTERNATE_CODEDIRECTORY_0 == <<0, 4096>>
CSSLOT_ALTERNATE_CODEDIRECTORY_1 == <<0, 4097>>
CSSLOT_ALTERNATE_CODEDIRECTORY_2 == <<0, 4098>>
CSSLOT_ALTERNATE_CODEDIRECTORY_3 == <<0, 4099>>
CSSLOT_ALTERNATE_CODEDIRECTORY_4 == <<0, 4100>>
CSSLOT_SIGNATURESLOT == <<1, 0>>
CSSLOT_IDENTIFICATIONSLOT == <<1, 1>>
CSSLOT_TICKETSLOT == <<1, 2>>

SlotConstants ==
    { CSSLOT_CODEDIRECTORY, CSSLOT_INFOSLOT, CSSLOT_REQUIREMENTS,
      CSSLOT_RESOURCEDIR, CSSLOT_APPLICATION, CSSLOT_ENTITLEMENTS,
      CSSLOT_ALTERNATE_CODEDIRECTORY_0, CSSLOT_ALTERNATE_CODEDIRECTORY_1,
      CSSLOT_ALTERNATE_CODEDIRECTORY_2, CSSLOT_ALTERNATE_CODEDIRECTORY_3,
      CSSLOT_ALTERNATE_CODEDIRECTORY_4, CSSLOT_SIGNATURESLOT,
      CSSLOT_IDENTIFICATIONSLOT, CSSLOT_TICKETSLOT }

\* enum values: a named variant, or Unknown carrying its u32
Variant(ty, name) == [enum |-> ty, tag |-> name]
Unknown(ty, v) == [enum |-> ty, tag |-> "Unknown", v |-> v]

Slot(name) == Variant("CodeSigningSlot", name)
SlotUnknown(v) == Unknown("CodeSigningSlot", v)

SlotNames ==
    { "CodeDirectory", "Info", "Requirements", "ResourceDir", "Application",
      "Entitlements", "AlternateCodeDirectory0", "AlternateCodeDirectory1",
      "AlternateCodeDirectory2", "AlternateCodeDirectory3",
      "AlternateCodeDirectory4", "Signature", "Identification", "Ticket" }

CodeSigningSlot_from_TicketAsUnknown(v) ==
    CASE v = CSSLOT_CODEDIRECTORY -> Slot("CodeDirectory")
      [] v = CSSLOT_INFOSLOT -> Slot("Info")
      [] v = CSSLOT_REQUIREMENTS -> Slot("Requirements")
      [] v = CSSLOT_RESOURCEDIR -> Slot("ResourceDir")
      [] v = CSSLOT_APPLICATION -> Slot("Application")
      [] v = CSSLOT_ENTITLEMENTS -> Slot("Entitlements")
      [] v = CSSLOT_ALTERNATE_CODEDIRECTORY_0 -> Slot("AlternateCodeDirectory0")
      [] v = CSSLOT_ALTERNATE_CODEDIRECTORY_1 -> Slot("AlternateCodeDirectory1")
      [] v = CSSLOT_ALTERNATE_CODEDIRECTORY_2 -> Slot("AlternateCodeDirectory2")
      [] v = CSSLOT_ALTERNATE_CODEDIRECTORY_3 -> Slot("AlternateCodeDirectory3")
      [] v = CSSLOT_ALTERNATE_CODEDIRECTORY_4 -> Slot("AlternateCodeDirectory4")
      [] v = CSSLOT_SIGNATURESLOT -> Slot("Signature")
      [] v = CSSLOT_IDENTIFICATIONSLOT -> Slot("Identification")
      [] OTHER -> SlotUnknown(v)

\* impl From<u32> for CodeSigningSlot
CodeSigningSlot_from(v) ==
    CASE v = CSSLOT_CODEDIRECTORY -> Slot("CodeDirectory")
      [] v = CSSLOT_INFOSLOT -> Slot("Info")
      [] v = CSSLOT_REQUIREMENTS -> Slot("Requirements")
      [] v = CSSLOT_RESOURCEDIR -> Slot("ResourceDir")
      [] v = CSSLOT_APPLICATION -> Slot("Application")
      [] v = CSSLOT_ENTITLEMENTS -> Slot("Entitlements")
      [] v = CSSLOT_ALTERNATE_CODEDIRECTORY_0 -> Slot("AlternateCodeDirectory0")
      [] v = CSSLOT_ALTERNATE_CODEDIRECTORY_1 -> Slot("AlternateCodeDirectory1")
      [] v = CSSLOT_ALTERNATE_CODEDIRECTORY_2 -> Slot("AlternateCodeDirectory2")
      [] v = CSSLOT_ALTERNATE_CODEDIRECTORY_3 -> Slot("AlternateCodeDirectory3")
      [] v = CSSLOT_ALTERNATE_CODEDIRECTORY_4 -> Slot("AlternateCodeDirectory4")
      [] v = CSSLOT_SIGNATURESLOT -> Slot("Signature")
      [] v = CSSLOT_IDENTIFICATIONSLOT -> Slot("Identification")
      [] v = CSSLOT_TICKETSLOT -> Slot("Ticket")
      [] OTHER -> SlotUnknown(v)

CodeSigningSlot_into_TicketAsIdentification(s) ==
    CASE s.tag = "CodeDirectory" -> CSSLOT_CODEDIRECTORY
      [] s.tag = "Info" -> CSSLOT_INFOSLOT
      [] s.tag = "Requirements" -> CSSLOT_REQUIREMENTS
      [] s.tag = "ResourceDir" -> CSSLOT_RESOURCEDIR
      [] s.tag = "Application" -> CSSLOT_APPLICATION
      [] s.tag = "Entitlements" -> CSSLOT_ENTITLEMENTS
      [] s.tag = "AlternateCodeDirectory0" -> CSSLOT_ALTERNATE_CODEDIRECTORY_0
      [] s.tag = "AlternateCodeDirectory1" -> CSSLOT_ALTERNATE_CODEDIRECTORY_1
      [] s.tag = "AlternateCodeDirectory2" -> CSSLOT_ALTERNATE_CODEDIRECTORY_2
      [] s.tag = "AlternateCodeDirectory3" -> CSSLOT_ALTERNATE_CODEDIRECTORY_3
      [] s.tag = "AlternateCodeDirectory4" -> CSSLOT_ALTERNATE_CODEDIRECTORY_4
      [] s.tag = "Signature" -> CSSLOT_SIGNATURESLOT
      [] s.tag = "Identification" -> CSSLOT_IDENTIFICATIONSLOT
      [] s.tag = "Ticket" -> CSSLOT_IDENTIFICATIONSLOT
      [] s.tag = "Unknown" -> s.v

\* impl Into<u32> for CodeSigningSlot
CodeSigningSlot_into(s) ==
    CASE s.tag = "CodeDirectory" -> CSSLOT_CODEDIRECTORY
      [] s.tag = "Info" -> CSSLOT_INFOSLOT
      [] s.tag = "Requirements" -> CSSLOT_REQUIREMENTS
      [] s.tag = "ResourceDir" -> CSSLOT_RESOURCEDIR
      [] s.tag = "Application" -> CSSLOT_APPLICATION
      [] s.tag = "Entitlements" -> CSSLOT_ENTITLEMENTS
      [] s.tag = "AlternateCodeDirectory0" -> CSSLOT_ALTERNATE_CODEDIRECTORY_0
      [] s.tag = "AlternateCodeDirectory1" -> CSSLOT_ALTERNATE_CODEDIRECTORY_1
      [] s.tag = "AlternateCodeDirectory2" -> CSSLOT_ALTERNATE_CODEDIRECTORY_2
      [] s.tag = "AlternateCodeDirectory3" -> CSSLOT_ALTERNATE_CODEDIRECTORY_3
      [] s.tag = "AlternateCodeDirectory4" -> CSSLOT_ALTERNATE_CODEDIRECTORY_4
      [] s.tag = "Signature" -> CSSLOT_SIGNATURESLOT
      [] s.tag = "Identification" -> CSSLOT_IDENTIFICATIONSLOT
      [] s.tag = "Ticket" -> CSSLOT_TICKETSLOT
      [] s.tag = "Unknown" -> s.v

---------------------------------------------------------------------------
(* Magic constants and the CodeSigningMagic enum.                          *)

CSMAGIC_REQUIREMENT == <<64222, 3072>>
CSMAGIC_REQUIREMENTS == <<64222, 3073>>
CSMAGIC_CODEDIRECTORY == <<64222, 3074>>
CSMAGIC_EMBEDDED_SIGNATURE == <<64222, 3264>>
CSMAGIC_EMBEDDED_SIGNATURE_OLD == <<64222, 2818>>
CSMAGIC_EMBEDDED_ENTITLEMENTS == <<64222, 29041>>
CSMAGIC_DETACHED_SIGNATURE == <<64222, 3265>>
CSMAGIC_BLOBWRAPPER == <<64222, 2817>>

MagicConstants ==
    { CSMAGIC_REQUIREMENT, CSMAGIC_REQUIREMENTS, CSMAGIC_CODEDIRECTORY,
      CSMAGIC_EMBEDDED_SIGNATURE, CSMAGIC_EMBEDDED_SIGNATURE_OLD,
      CSMAGIC_EMBEDDED_ENTITLEMENTS, CSMAGIC_DETACHED_SIGNATURE,
      CSMAGIC_BLOBWRAPPER }

Magic(name) == Variant("CodeSigningMagic", name)
MagicUnknown(v) == Unknown("CodeSigningMagic", v)

MagicNames ==
    { "Requirement", "Requirements", "CodeDirectory", "EmbeddedSignature",
      "EmbeddedSignatureOld", "EmbeddedEntitlements", "DetachedSignature",
      "BlobWrapper" }

\* impl From<u32> for CodeSigningMagic
CodeSigningMagic_from(v) ==
    CASE v = CSMAGIC_REQUIREMENT -> Magic("Requirement")
      [] v = CSMAGIC_REQUIREMENTS -> Magic("Requirements")
      [] v = CSMAGIC_CODEDIRECTORY -> Magic("CodeDirectory")
      [] v = CSMAGIC_EMBEDDED_SIGNATURE -> Magic("EmbeddedSignature")
      [] v = CSMAGIC_EMBEDDED_SIGNATURE_OLD -> Magic("EmbeddedSignatureOld")
      [] v = CSMAGIC_EMBEDDED_ENTITLEMENTS -> Magic("EmbeddedEntitlements")
      [] v = CSMAGIC_DETACHED_SIGNATURE -> Magic("DetachedSignature")
      [] v = CSMAGIC_BLOBWRAPPER -> Magic("BlobWrapper")
      [] OTHER -> MagicUnknown(v)

\* impl Into<u32> for CodeSigningMagic
CodeSigningMagic_into(m) ==
    CASE m.tag = "Requirement" -> CSMAGIC_REQUIREMENT
      [] m.tag = "Requirements" -> CSMAGIC_REQUIREMENTS
      [] m.tag = "CodeDirectory" -> CSMAGIC_CODEDIRECTORY
      [] m.tag = "EmbeddedSignature" -> CSMAGIC_EMBEDDED_SIGNATURE
      [] m.tag = "EmbeddedSignatureOld" -> CSMAGIC_EMBEDDED_SIGNATURE_OLD
      [] m.tag = "EmbeddedEntitlements" -> CSMAGIC_EMBEDDED_ENTITLEMENTS
      [] m.tag = "DetachedSignature" -> CSMAGIC_DETACHED_SIGNATURE
      [] m.tag = "BlobWrapper" -> CSMAGIC_BLOBWRAPPER
      [] m.tag = "Unknown" -> m.v

---------------------------------------------------------------------------
(* SpecEnum: the enum conversions applied to sampled wire values and to    *)
(* sampled enum values.                                                    *)

\* u32 samples: every listed constant, its neighbours, and the extremes
WireSamples ==
    SlotConstants \cup MagicConstants \cup
    { <<0, 6>>, <<0, 4095>>, <<0, 4101>>, <<0, 65535>>, <<1, 3>>,
      <<57005, 48879>>, <<64222, 3075>>, <<64222, 2816>>, <<51966, 53261>>,
      <<32768, 0>>, <<65535, 65535>> }

SlotValues ==
    {Slot(n) : n \in SlotNames} \cup {SlotUnknown(v) : v \in WireSamples}

MagicValues ==
    {Magic(n) : n \in MagicNames} \cup {MagicUnknown(v) : v \in WireSamples}

Idle == [enum |-> "none", tag |-> "none"]

InitEnum ==
    /\ data = <<>>
    /\ build \in {"debug", "release"}
    /\ result = NoResult
    /\ op = "none"
    /\ wire \in WireSamples
    /\ val \in SlotValues \cup MagicValues

SlotFromU32 ==
    /\ result' = Ok(CodeSigningSlot_from(wire))
    /\ op' = "CodeSigningSlot::from"
    /\ UNCHANGED <<data, build, wire, val>>

SlotIntoU32 ==
    /\ val.enum = "CodeSigningSlot"
    /\ result' = Ok(CodeSigningSlot_into(val))
    /\ op' = "CodeSigningSlot::into"
    /\ UNCHANGED <<data, build, wire, val>>

MagicFromU32 ==
    /\ result' = Ok(CodeSigningMagic_from(wire))
    /\ op' = "CodeSigningMagic::from"
    /\ UNCHANGED <<data, build, wire, val>>

MagicIntoU32 ==
    /\ val.enum = "CodeSigningMagic"
    /\ result' = Ok(CodeSigningMagic_into(val))
    /\ op' = "CodeSigningMagic::into"
    /\ UNCHANGED <<data, build, wire, val>>

NextEnum == SlotFromU32 \/ SlotIntoU32 \/ MagicFromU32 \/ MagicIntoU32

SpecEnum == InitEnum /\ [][NextEnum]_vars

\* C5: u32 -> enum -> u32 is the identity on every wire value, for slots and
\* for magics, and a value that is no listed constant is carried by Unknown.
C5_WireRoundTrip ==
    /\ op = "CodeSigningSlot::from" =>
          /\ CodeSigningSlot_into(result.val) = wire
          /\ (wire \notin SlotConstants => result.val = SlotUnknown(wire))
          /\ (wire \in SlotConstants => result.val.tag \in SlotNames)
    /\ op = "CodeSigningMagic::from" =>
          /\ CodeSigningMagic_into(result.val) = wire
          /\ (wire \notin MagicConstants => result.val = MagicUnknown(wire))
          /\ (wire \in MagicConstants => result.val.tag \in MagicNames)

C5_Witness ==
    /\ op = "CodeSigningMagic::from"
    /\ wire = <<57005, 48879>>
    /\ result.val = MagicUnknown(wire)

\* C6 as stated: enum -> u32 -> enum is the identity on every CodeSigningSlot
\* value, Unknown(v) for every v included.
C6_SlotRoundTripAll ==
    op = "CodeSigningSlot::into" => CodeSigningSlot_from(result.val) = val

\* C6 amended: the identity holds on the values From<u32> produces: the named
\* variants, and Unknown(v) for v that is no listed slot constant.
C6_SlotRoundTripCanonical ==
    (op = "CodeSigningSlot::into"
        /\ (val.tag = "Unknown" => val.v \notin SlotConstants))
    => CodeSigningSlot_from(result.val) = val

C6_Witness ==
    /\ op = "CodeSigningSlot::into"
    /\ val = SlotUnknown(<<57005, 48879>>)
    /\ result.val = <<57005, 48879>>

---------------------------------------------------------------------------
(* Byte buffers and the scroll reads.  Offsets are 0-based as in the code. *)

Min(S) == CHOOSE x \in S : \A y \in S : x <= y

U32Bytes(v) == <<v[1] \div 256, v[1] % 256, v[2] \div 256, v[2] % 256>>

\* whether n bytes can be read at offset o (scroll fails the read otherwise)
CanRead(d, o, n) == o + n <= Len(d)

\* big-endian u32 at offset o; the caller has checked CanRead(d, o, 4)
ReadU32(d, o) == <<d[o + 1] * 256 + d[o + 2], d[o + 3] * 256 + d[o + 4]>>

\* &d[a..b] for naturals a <= b <= Len(d)
Slice(d, a, b) == SubSeq(d, a + 1, b)

\* whether &d[a..b] is in bounds for wide a, b (the slice panics otherwise)
SliceOk(d, a, b) == WLe(a, b) /\ WLe(b, WNat(Len(d)))

\* scroll::Error collapses to one error kind: MachOParseError::ScrollError
ScrollError == Err("ScrollError")

\* fn read_blob_header: (magic, length as usize, &data[8..])
read_blob_header(d) ==
    IF ~CanRead(d, 0, 4) THEN ScrollError
    ELSE IF ~CanRead(d, 4, 4) THEN ScrollError
    ELSE Ok([magic |-> ReadU32(d, 0),
             length |-> ReadU32(d, 4),
             rest |-> Slice(d, 8, Len(d))])

\* fn read_and_validate_blob_header
read_and_validate_blob_header(d, expected_magic) ==
    LET h == read_blob_header(d) IN
    IF h.tag # "Ok" THEN h
    ELSE IF h.val.magic # expected_magic THEN Err("BadMagic")
    ELSE Ok(h.val.rest)

\* struct BlobIndex read with gread_with::<BlobIndex>; caller checked 8 bytes
ReadBlobIndex(d, o) == [typ |-> ReadU32(d, o), offset |-> ReadU32(d, o + 4)]

---------------------------------------------------------------------------
(* EmbeddedSignature::from_bytes and parse_signature_data.                 *)
(* Vec::with_capacity(count) is taken to succeed.                          *)

\* The end of the slice framed for the i-th (1-based) index record.
EndOffset(d, blob_indices, i) ==
    IF i = Len(blob_indices) THEN WNat(Len(d))
    ELSE blob_indices[i + 1].offset

EndOffset_AlwaysBufferEnd(d, blob_indices, i) == WNat(Len(d))

BlobEntryLength_FromSpan(blob_data, header) == WNat(Len(blob_data))

\* the length field of a BlobEntry: the length read from the blob's header
BlobEntryLength(blob_data, header) == header.length

BlobEntrySlot_FromOffset(index) == CodeSigningSlot_from(index.offset)

\* the slot field of a BlobEntry: index.typ.into()
BlobEntrySlot(index) == CodeSigningSlot_from(index.typ)

\* One iteration of the loop over blob_indices.iter().enumerate(): the
\* BlobEntry pushed, the error returned, or the slice panic.
BlobEntryAt(d, blob_indices, i) ==
    LET index == blob_indices[i]
        end_offset == EndOffset(d, blob_indices, i)
    IN  IF ~SliceOk(d, index.offset, end_offset)
        THEN Panic("slice index out of range")
        ELSE LET blob_data == Slice(d, ToNat(index.offset), ToNat(end_offset))
                 h == read_blob_header(blob_data)
             IN  IF h.tag # "Ok" THEN h
                 ELSE Ok([index |-> i - 1,
                          slot |-> BlobEntrySlot(index),
                          offset |-> ToNat(index.offset),
                          magic |-> CodeSigningMagic_from(h.val.magic),
                          length |-> BlobEntryLength(blob_data, h.val),
                          data |-> blob_data])

\* number of BlobIndex records pushed by the loop `for _ in 0..count`
IndexRecordsRead(count) == ToNat(count)

IndexRecordsRead_OffByOne(count) ==
    IF ToNat(count) = 0 THEN 0 ELSE ToNat(count) - 1

EmbeddedSignature_from_bytes_NoMagicCheck(d) ==
    IF ~CanRead(d, 0, 4) THEN ScrollError
    ELSE IF ~CanRead(d, 4, 4) \/ ~CanRead(d, 8, 4) THEN ScrollError
    ELSE Ok([magic |-> CodeSigningMagic_from(ReadU32(d, 0)),
             length |-> ReadU32(d, 4),
             count |-> ReadU32(d, 8),
             data |-> d,
             blobs |-> <<>>])

\* EmbeddedSignature::from_bytes
EmbeddedSignature_from_bytes(d) ==
    IF ~CanRead(d, 0, 4) THEN ScrollError
    ELSE
    LET magic == CodeSigningMagic_from(ReadU32(d, 0)) IN
    IF magic # Magic("EmbeddedSignature") THEN Err("BadMagic")
    ELSE IF ~CanRead(d, 4, 4) THEN ScrollError
    ELSE IF ~CanRead(d, 8, 4) THEN ScrollError
    ELSE
    LET length == ReadU32(d, 4)
        count == ReadU32(d, 8)
        \* whole BlobIndex records available after the 12 header bytes
        avail == (Len(d) - 12) \div 8
    IN  IF WLt(WNat(avail), count) THEN ScrollError
        ELSE
        LET n == IndexRecordsRead(count)
            blob_indices == [i \in 1..n |-> ReadBlobIndex(d, 12 + 8 * (i - 1))]
            entry(i) == BlobEntryAt(d, blob_indices, i)
            failed == {i \in 1..n : entry(i).tag # "Ok"}
        IN  IF failed # {} THEN entry(Min(failed))
            ELSE Ok([magic |-> magic,
                     length |-> length,
                     count |-> count,
                     data |-> d,
                     blobs |-> [i \in 1..n |-> entry(i).val]])

\* fn parse_signature_data
parse_signature_data(d) ==
    IF ~CanRead(d, 0, 4) THEN ScrollError
    ELSE IF ReadU32(d, 0) = CSMAGIC_EMBEDDED_SIGNATURE
         THEN EmbeddedSignature_from_bytes(d)
         ELSE Err("BadMagic")

---------------------------------------------------------------------------
(* Spec: super-blob buffers.  A buffer starts as a well-formed super-blob  *)
(* of up to MaxCount blobs; it can be cut short byte by byte, or have one  *)
(* aligned u32 overwritten; the decoders are applied to what results.      *)

MaxCount == 2
MaxPayload == 1

RECURSIVE Flatten(_)
Flatten(ss) == IF ss = <<>> THEN <<>> ELSE Head(ss) \o Flatten(Tail(ss))

\* a blob: {magic, length} header and payload, length inclusive of the header
BlobBytes(magic, payload) ==
    U32Bytes(magic) \o U32Bytes(WNat(8 + Len(payload))) \o payload

\* payload bytes "y", "z", ...
Payload(k) == [i \in 1..k |-> 120 + i]

BlobKinds ==
    { [typ |-> CSSLOT_SIGNATURESLOT, magic |-> CSMAGIC_BLOBWRAPPER],
      [typ |-> <<57005, 48879>>, magic |-> <<51966, 53261>>] }

BlobSpecs ==
    { [typ |-> k.typ, magic |-> k.magic, payload |-> Payload(p)] :
        k \in BlobKinds, p \in 0..MaxPayload }

\* the well-formed super-blob holding the blobs bs, in order
SuperBlobBytes(bs) ==
    LET n == Len(bs)
        blobs == [i \in 1..n |-> BlobBytes(bs[i].magic, bs[i].payload)]
        start(i) == 12 + 8 * n + Len(Flatten(SubSeq(blobs, 1, i - 1)))
        index == [i \in 1..n |-> U32Bytes(bs[i].typ) \o U32Bytes(WNat(start(i)))]
        total == 12 + 8 * n + Len(Flatten(blobs))
    IN  U32Bytes(CSMAGIC_EMBEDDED_SIGNATURE) \o U32Bytes(WNat(total))
            \o U32Bytes(WNat(n)) \o Flatten(index) \o Flatten(blobs)

CorruptValues ==
    { <<0, 0>>, <<0, 3>>, <<0, 20>>, <<0, 36>>, <<1, 0>>, <<65535, 65535>>,
      CSMAGIC_BLOBWRAPPER, CSMAGIC_EMBEDDED_SIGNATURE }

Init ==
    /\ \E n \in 0..MaxCount : \E bs \in [1..n -> BlobSpecs] :
          data = SuperBlobBytes(bs)
    /\ build = "release"
    /\ result = NoResult
    /\ op = "none"
    /\ wire = <<0, 0>>
    /\ val = Idle

\* the caller hands over one byte less
Truncate ==
    /\ op \in {"none", "truncate"}
    /\ Len(data) > 0
    /\ data' = SubSeq(data, 1, Len(data) - 1)
    /\ result' = NoResult
    /\ op' = "truncate"
    /\ UNCHANGED <<build, wire, val>>

\* one aligned u32 of an untouched buffer holds another value
Corrupt ==
    /\ op = "none"
    /\ \E w \in 0..((Len(data) \div 4) - 1) : \E v \in CorruptValues :
          /\ ReadU32(data, 4 * w) # v
          /\ data' = SubSeq(data, 1, 4 * w) \o U32Bytes(v)
                        \o SubSeq(data, 4 * w + 5, Len(data))
    /\ result' = NoResult
    /\ op' = "corrupt"
    /\ UNCHANGED <<build, wire, val>>

FromBytes ==
    /\ op \in {"none", "truncate", "corrupt"}
    /\ result' = EmbeddedSignature_from_bytes(data)
    /\ op' = "EmbeddedSignature::from_bytes"
    /\ UNCHANGED <<data, build, wire, val>>

ParseSignatureData ==
    /\ op \in {"none", "truncate", "corrupt"}
    /\ result' = parse_signature_data(data)
    /\ op' = "parse_signature_data"
    /\ UNCHANGED <<data, build, wire, val>>

Next == Truncate \/ Corrupt \/ FromBytes \/ ParseSignatureData

Spec == Init /\ [][Next]_vars

Decoded == op \in {"EmbeddedSignature::from_bytes", "parse_signature_data"}

\* the i-th (1-based) index record as it stands in the buffer
IndexTyp(i) == ReadU32(data, 12 + 8 * (i - 1))
IndexOffset(i) == ReadU32(data, 12 + 8 * (i - 1) + 4)

\* C1: a decoded super-blob has a header length within the buffer, and every
\* blob entry ends (offset + its header's length) within the buffer.
C1_LengthsWithinBuffer ==
    (Decoded /\ result.tag = "Ok") =>
        /\ WLe(result.val.length, WNat(Len(data)))
        /\ \A i \in 1..Len(result.val.blobs) :
              WLe(WAdd(WNat(result.val.blobs[i].offset),
                       result.val.blobs[i].length),
                  WNat(Len(data)))

\* C2: decoding ends with Ok or Err on every buffer; it never panics.
C2_NeverPanics == Decoded => result.tag \in {"Ok", "Err"}

\* C3: on success the blob list has exactly `count` entries, the i-th with
\* index i, the slot of the i-th index record's typ and that record's offset;
\* a count of 0 with the 12 header bytes present decodes to an empty list.
C3_EntriesMirrorIndex ==
    /\ (Decoded /\ result.tag = "Ok") =>
          /\ WNat(Len(result.val.blobs)) = ReadU32(data, 8)
          /\ result.val.count = ReadU32(data, 8)
          /\ \A i \in 1..Len(result.val.blobs) :
                /\ result.val.blobs[i].index = i - 1
                /\ result.val.blobs[i].slot = CodeSigningSlot_from(IndexTyp(i))
                /\ WNat(result.val.blobs[i].offset) = IndexOffset(i)
    /\ (/\ Decoded
        /\ Len(data) >= 12
        /\ ReadU32(data, 0) = CSMAGIC_EMBEDDED_SIGNATURE
        /\ ReadU32(data, 8) = <<0, 0>>) =>
          (result.tag = "Ok" /\ result.val.blobs = <<>>)

\* two entries decoded, of distinct slots, out of a buffer with trailing bytes
C3_Witness ==
    /\ op = "EmbeddedSignature::from_bytes"
    /\ result.tag = "Ok"
    /\ Len(result.val.blobs) = 2
    /\ result.val.blobs[1].slot = Slot("Signature")
    /\ result.val.blobs[2].slot = SlotUnknown(<<57005, 48879>>)
    /\ result.val.blobs[2].offset = 37

\* C4: a buffer of at least 4 bytes whose leading u32 is not 0xfade0cc0 gives
\* Err(BadMagic) from both entry points, whatever follows.
C4_BadMagic ==
    (Decoded /\ Len(data) >= 4 /\ ReadU32(data, 0) # CSMAGIC_EMBEDDED_SIGNATURE)
        => result = Err("BadMagic")

C4_Witness ==
    /\ op = "EmbeddedSignature::from_bytes"
    /\ Len(data) > 28
    /\ ReadU32(data, 0) = CSMAGIC_BLOBWRAPPER
    /\ result = Err("BadMagic")

\* C8: every decoded entry's length is the length field of the blob's own
\* header, and its data is exactly the buffer bytes [offset, offset + length).
C8_EntryFramedByHeaderLength ==
    (Decoded /\ result.tag = "Ok") =>
        \A i \in 1..Len(result.val.blobs) :
            LET e == result.val.blobs[i] IN
            /\ e.length = ReadU32(data, e.offset + 4)
            /\ SliceOk(data, WNat(e.offset), WAdd(WNat(e.offset), e.length))
            /\ e.data = Slice(data, e.offset, e.offset + ToNat(e.length))

---------------------------------------------------------------------------
(* CodeDirectoryBlob::from_bytes.                                          *)

CS_SUPPORTSSCATTER == <<2, 256>>
CS_SUPPORTSTEAMID == <<2, 512>>
CS_SUPPORTSCODELIMIT64 == <<2, 768>>
CS_SUPPORTSEXECSEG == <<2, 1024>>
CS_SUPPORTSRUNTIME == <<2, 1280>>
CS_SUPPORTSLINKAGE == <<2, 1536>>

Some(x) == [some |-> TRUE, v |-> x]
None == [some |-> FALSE]

ReadU8(d, o) == d[o + 1]
ReadU16(d, o) == d[o + 1] * 256 + d[o + 2]
\* a big-endian u64 as a pair of u32
ReadU64(d, o) == <<ReadU32(d, o), ReadU32(d, o + 4)>>

\* std::str::from_utf8 accepts the bytes (well-formed UTF-8, RFC 3629)
RECURSIVE Utf8Valid(_)
Utf8Valid(b) ==
    LET n == Len(b)
        cont(i) == i <= n /\ b[i] >= 128 /\ b[i] <= 191
    IN
    IF n = 0 THEN TRUE
    ELSE IF b[1] <= 127 THEN Utf8Valid(SubSeq(b, 2, n))
    ELSE IF b[1] >= 194 /\ b[1] <= 223
         THEN cont(2) /\ Utf8Valid(SubSeq(b, 3, n))
    ELSE IF b[1] >= 224 /\ b[1] <= 239
         THEN /\ cont(2) /\ cont(3)
              /\ (b[1] = 224 => b[2] >= 160)
              /\ (b[1] = 237 => b[2] <= 159)
              /\ Utf8Valid(SubSeq(b, 4, n))
    ELSE IF b[1] >= 240 /\ b[1] <= 244
         THEN /\ cont(2) /\ cont(3) /\ cont(4)
              /\ (b[1] = 240 => b[2] >= 144)
              /\ (b[1] = 244 => b[2] <= 143)
              /\ Utf8Valid(SubSeq(b, 5, n))
    ELSE FALSE

\* the first item of d.split(|&b| b == 0): the bytes before the first NUL,
\* or all of d when it holds none (split always yields a first item)
FirstSplit(d) ==
    LET nuls == {i \in 1..Len(d) : d[i] = 0} IN
    IF nuls = {} THEN d ELSE SubSeq(d, 1, Min(nuls) - 1)

get_hashes_ChunkCountOnly(d, offset, count, hash_size) ==
    LET end == WAdd(offset, WMul8(count, hash_size)) IN
    IF ~SliceOk(d, offset, end) THEN Panic("slice index out of range")
    ELSE IF hash_size = 0 THEN Panic("chunk size must be non-zero")
    ELSE Ok([j \in 1..ToNat(count) |->
               Slice(d, ToNat(offset) + (j - 1) * hash_size,
                        ToNat(offset) + (j - 1) * hash_size + 1)])

get_hashes_DropLast(d, offset, count, hash_size) ==
    LET end == WAdd(offset, WMul8(count, hash_size)) IN
    IF ~SliceOk(d, offset, end) THEN Panic("slice index out of range")
    ELSE IF hash_size = 0 THEN Panic("chunk size must be non-zero")
    ELSE Ok([j \in 1..(IF ToNat(count) = 0 THEN 0 ELSE ToNat(count) - 1) |->
               Slice(d, ToNat(offset) + (j - 1) * hash_size,
                        ToNat(offset) + j * hash_size)])

\* fn get_hashes: data[offset..offset + count * hash_size].chunks(hash_size);
\* offset and count are usize (wide), hash_size a u8 widened to usize
get_hashes(d, offset, count, hash_size) ==
    LET end == WAdd(offset, WMul8(count, hash_size)) IN
    IF ~SliceOk(d, offset, end) THEN Panic("slice index out of range")
    ELSE IF hash_size = 0 THEN Panic("chunk size must be non-zero")
    ELSE Ok([j \in 1..ToNat(count) |->
               Slice(d, ToNat(offset) + (j - 1) * hash_size,
                        ToNat(offset) + j * hash_size)])

\* 2u32.pow(exp): overflow panics with overflow checks and wraps without
PageSize(exp, b) ==
    IF exp < 16 THEN Ok(<<0, 2 ^ exp>>)
    ELSE IF exp < 32 THEN Ok(<<2 ^ (exp - 16), 0>>)
    ELSE IF b = "debug" THEN Panic("attempt to multiply with overflow")
    ELSE Ok(<<0, 0>>)

\* hash_offset - (hash_size as u32 * n_special_slots), in u32 arithmetic
SpecialHashesOffset(hash_offset, hash_size, n_special_slots, b) ==
    LET product == WMul8(n_special_slots, hash_size) IN
    IF ~FitsU32(product) /\ b = "debug"
    THEN Panic("attempt to multiply with overflow")
    ELSE LET p == Wrap32(product) IN
         IF WLt(hash_offset, p)
         THEN IF b = "debug" THEN Panic("attempt to subtract with overflow")
              ELSE Ok(WSub(<<hash_offset[1] + Base, hash_offset[2]>>, p))
         ELSE Ok(WSub(hash_offset, p))

Supports_Strict(version, threshold) == WLt(threshold, version)

\* version >= CS_SUPPORTS*
Supports(version, threshold) == WLe(threshold, version)

SpecialHashMap_NearestFirst(hashes) ==
    LET n == Len(hashes)
        key(i) == CodeSigningSlot_from(WNat(i - 1))
    IN  [k \in {key(i) : i \in 1..n} |->
            hashes[n + 1 - (CHOOSE i \in 1..n : key(i) = k)]]

\* the HashMap collected from (CodeSigningSlot::from(i as u32), h) pairs
SpecialHashMap(hashes) ==
    LET key(i) == CodeSigningSlot_from(WNat(i - 1))
        keys == {key(i) : i \in 1..Len(hashes)}
    IN  [k \in keys |->
            hashes[CHOOSE i \in 1..Len(hashes) :
                      key(i) = k /\ \A j \in 1..Len(hashes) : key(j) = k => j <= i]]

\* the cursor after each version-gated group of fields, starting at 44
CDCursor(version) ==
    LET c1 == 44
        c2 == c1 + (IF Supports(version, CS_SUPPORTSSCATTER) THEN 4 ELSE 0)
        c3 == c2 + (IF Supports(version, CS_SUPPORTSTEAMID) THEN 4 ELSE 0)
        c4 == c3 + (IF Supports(version, CS_SUPPORTSCODELIMIT64) THEN 12 ELSE 0)
        c5 == c4 + (IF Supports(version, CS_SUPPORTSEXECSEG) THEN 24 ELSE 0)
        c6 == c5 + (IF Supports(version, CS_SUPPORTSRUNTIME) THEN 8 ELSE 0)
        c7 == c6 + (IF Supports(version, CS_SUPPORTSLINKAGE) THEN 12 ELSE 0)
    IN  [scatter |-> c1, team |-> c2, codelimit64 |-> c3, execseg |-> c4,
         runtime |-> c5, linkage |-> c6, end |-> c7]

\* the header fields, once every read is known to succeed
CDFields(d, page_size) ==
    LET version == ReadU32(d, 8)
        c == CDCursor(version)
        opt(threshold, x) == IF Supports(version, threshold) THEN Some(x) ELSE None
    IN  [version |-> version,
         flags |-> ReadU32(d, 12),
         hash_offset |-> ReadU32(d, 16),
         ident_offset |-> ReadU32(d, 20),
         n_special_slots |-> ReadU32(d, 24),
         n_code_slots |-> ReadU32(d, 28),
         code_limit |-> ReadU32(d, 32),
         hash_size |-> ReadU8(d, 36),
         hash_type |-> ReadU8(d, 37),
         platform |-> ReadU8(d, 38),
         page_size |-> page_size,
         spare2 |-> ReadU32(d, 40),
         scatter_offset |-> opt(CS_SUPPORTSSCATTER, ReadU32(d, c.scatter)),
         team_offset |-> opt(CS_SUPPORTSTEAMID, ReadU32(d, c.team)),
         spare3 |-> opt(CS_SUPPORTSCODELIMIT64, ReadU32(d, c.codelimit64)),
         code_limit_64 |-> opt(CS_SUPPORTSCODELIMIT64, ReadU64(d, c.codelimit64 + 4)),
         exec_seg_base |-> opt(CS_SUPPORTSEXECSEG, ReadU64(d, c.execseg)),
         exec_seg_limit |-> opt(CS_SUPPORTSEXECSEG, ReadU64(d, c.execseg + 8)),
         exec_seg_flags |-> opt(CS_SUPPORTSEXECSEG, ReadU64(d, c.execseg + 16)),
         runtime |-> opt(CS_SUPPORTSRUNTIME, ReadU32(d, c.runtime)),
         pre_encrypt_offset |-> opt(CS_SUPPORTSRUNTIME, ReadU32(d, c.runtime + 4)),
         linkage_hash_type |-> opt(CS_SUPPORTSLINKAGE, ReadU8(d, c.linkage)),
         linkage_truncated |-> opt(CS_SUPPORTSLINKAGE, ReadU8(d, c.linkage + 1)),
         spare4 |-> opt(CS_SUPPORTSLINKAGE, ReadU16(d, c.linkage + 2)),
         linkage_offset |-> opt(CS_SUPPORTSLINKAGE, ReadU32(d, c.linkage + 4)),
         linkage_size |-> opt(CS_SUPPORTSLINKAGE, ReadU32(d, c.linkage + 8))]

\* CodeDirectoryBlob::from_bytes from the identifier on: the header fields f
\* are read, the identifier and the hashes are sliced out of d
CDIdentAndHashes(d, f, b) ==
    IF ~SliceOk(d, f.ident_offset, WNat(Len(d)))
    THEN Panic("slice index out of range")
    ELSE
    LET ident == FirstSplit(Slice(d, ToNat(f.ident_offset), Len(d))) IN
    IF ~Utf8Valid(ident) THEN Err("Utf8Error")
    ELSE
    LET code_hashes == get_hashes(d, f.hash_offset, f.n_code_slots, f.hash_size) IN
    IF code_hashes.tag # "Ok" THEN code_hashes
    ELSE
    LET special_offset ==
            SpecialHashesOffset(f.hash_offset, f.hash_size, f.n_special_slots, b)
    IN
    IF special_offset.tag # "Ok" THEN special_offset
    ELSE
    LET special == get_hashes(d, special_offset.val, f.n_special_slots, f.hash_size) IN
    IF special.tag # "Ok" THEN special
    ELSE Ok([f |-> f,
             ident |-> ident,
             code_hashes |-> code_hashes.val,
             special_hashes |-> SpecialHashMap(special.val)])

\* CodeDirectoryBlob::from_bytes, built with (b = "debug") or without
\* (b = "release") overflow checks
CodeDirectoryBlob_from_bytes(d, b) ==
    LET hdr == read_and_validate_blob_header(d, CSMAGIC_CODEDIRECTORY) IN
    IF hdr.tag # "Ok" THEN hdr
    \* version .. page_size: the reads up to offset 40
    ELSE IF ~CanRead(d, 8, 32) THEN ScrollError
    ELSE
    LET page_size == PageSize(ReadU8(d, 39), b) IN
    IF page_size.tag # "Ok" THEN page_size
    ELSE IF ~CanRead(d, 40, 4) THEN ScrollError
    ELSE IF ~CanRead(d, 44, CDCursor(ReadU32(d, 8)).end - 44) THEN ScrollError
    ELSE CDIdentAndHashes(d, CDFields(d, page_size.val), b)

---------------------------------------------------------------------------
(* SpecCD: code directory blobs.  A buffer starts as a well-formed code    *)
(* directory: header of the version's size, identifier, special hashes,    *)
(* code hashes; it can be cut short byte by byte or have one aligned u32   *)
(* overwritten; the decoder is applied under either build profile.         *)

MaxSpecial == 2
MaxCode == 2

VersionSamples ==
    { <<0, 0>>, <<2, 0>>, <<2, 255>>, <<2, 256>>, <<2, 512>>, <<2, 768>>,
      <<2, 1024>>, <<2, 1280>>, <<2, 1536>>, <<3, 1>> }

\* a well-formed code directory with hash size 2, page size 2^12 and the
\* identifier "a"; every byte of the version-gated fields and of the hashes
\* differs from its neighbours
CDBytes(version, n_special, n_code) ==
    LET hash_size == 2
        c == CDCursor(version)
        ident == <<97, 0>>
        hash_offset == c.end + Len(ident) + n_special * hash_size
        total == hash_offset + n_code * hash_size
    IN  U32Bytes(CSMAGIC_CODEDIRECTORY) \o U32Bytes(WNat(total))
            \o U32Bytes(version) \o U32Bytes(<<0, 2>>)
            \o U32Bytes(WNat(hash_offset)) \o U32Bytes(WNat(c.end))
            \o U32Bytes(WNat(n_special)) \o U32Bytes(WNat(n_code))
            \o U32Bytes(<<0, 8192>>) \o <<hash_size, 2, 0, 12>>
            \o U32Bytes(<<0, 0>>)
            \o [i \in 1..(c.end - 44) |-> 100 + i]
            \o ident
            \o [i \in 1..((n_special + n_code) * hash_size) |-> 200 + i]

CDCorruptValues ==
    { <<0, 0>>, <<0, 1>>, <<0, 3>>, <<0, 50>>, <<1, 0>>, <<32768, 0>>,
      <<65535, 65535>>, <<258, 12>>, <<514, 32>>, <<2, 1280>> }

InitCD ==
    /\ \E v \in VersionSamples : \E ns \in 0..MaxSpecial : \E nc \in 0..MaxCode :
          data = CDBytes(v, ns, nc)
    /\ build = "release"
    /\ result = NoResult
    /\ op = "none"
    /\ wire = <<0, 0>>
    /\ val = Idle

CorruptCD ==
    /\ op = "none"
    /\ \E w \in 0..((Len(data) \div 4) - 1) : \E v \in CDCorruptValues :
          /\ ReadU32(data, 4 * w) # v
          /\ data' = SubSeq(data, 1, 4 * w) \o U32Bytes(v)
                        \o SubSeq(data, 4 * w + 5, Len(data))
    /\ result' = NoResult
    /\ op' = "corrupt"
    /\ UNCHANGED <<build, wire, val>>

DecodeCD ==
    /\ op \in {"none", "truncate", "corrupt"}
    /\ \E b \in {"debug", "release"} :
          /\ build' = b
          /\ result' = CodeDirectoryBlob_from_bytes(data, b)
    /\ op' = "CodeDirectoryBlob::from_bytes"
    /\ UNCHANGED <<data, wire, val>>

NextCD == Truncate \/ CorruptCD \/ DecodeCD

SpecCD == InitCD /\ [][NextCD]_vars

DecodedCD == op = "CodeDirectoryBlob::from_bytes" /\ result.tag = "Ok"

\* the version-gated groups in declared order: threshold, and per field its
\* name, its offset within the group and its width in bytes
CDGroups ==
    << [threshold |-> <<2, 256>>, size |-> 4,
        fields |-> {<<"scatter_offset", 0, 4>>}],
       [threshold |-> <<2, 512>>, size |-> 4,
        fields |-> {<<"team_offset", 0, 4>>}],
       [threshold |-> <<2, 768>>, size |-> 12,
        fields |-> {<<"spare3", 0, 4>>, <<"code_limit_64", 4, 8>>}],
       [threshold |-> <<2, 1024>>, size |-> 24,
        fields |-> {<<"exec_seg_base", 0, 8>>, <<"exec_seg_limit", 8, 8>>,
                    <<"exec_seg_flags", 16, 8>>}],
       [threshold |-> <<2, 1280>>, size |-> 8,
        fields |-> {<<"runtime", 0, 4>>, <<"pre_encrypt_offset", 4, 4>>}],
       [threshold |-> <<2, 1536>>, size |-> 12,
        fields |-> {<<"linkage_hash_type", 0, 1>>, <<"linkage_truncated", 1, 1>>,
                    <<"spare4", 2, 2>>, <<"linkage_offset", 4, 4>>,
                    <<"linkage_size", 8, 4>>}] >>

RECURSIVE GroupStart(_, _)
\* where group g starts for a version: 44 plus the sizes of the earlier
\* groups whose threshold the version reaches
GroupStart(version, g) ==
    IF g = 1 THEN 44
    ELSE GroupStart(version, g - 1)
            + (IF WLe(CDGroups[g - 1].threshold, version)
               THEN CDGroups[g - 1].size ELSE 0)

\* the w bytes at offset o as the value a big-endian read of that width gives
WireValue(d, o, w) ==
    CASE w = 1 -> ReadU8(d, o)
      [] w = 2 -> ReadU16(d, o)
      [] w = 4 -> ReadU32(d, o)
      [] w = 8 -> ReadU64(d, o)

\* C9: a decoded code directory of version v has Some exactly for the fields
\* whose threshold is <= v, each read at the place that follows the groups
\* present before it, and None for all others.
C9_VersionGatedFields ==
    DecodedCD =>
        LET v == ReadU32(data, 8) IN
        /\ result.val.f.version = v
        /\ \A g \in 1..Len(CDGroups) : \A fld \in CDGroups[g].fields :
              IF WLe(CDGroups[g].threshold, v)
              THEN /\ CanRead(data, GroupStart(v, g) + fld[2], fld[3])
                   /\ result.val.f[fld[1]] =
                         Some(WireValue(data, GroupStart(v, g) + fld[2], fld[3]))
              ELSE result.val.f[fld[1]] = None

\* version 0x20400: exec_seg_* present, runtime absent
C9_Witness ==
    /\ DecodedCD
    /\ ReadU32(data, 8) = <<2, 1024>>
    /\ result.val.f.exec_seg_flags.some
    /\ ~result.val.f.runtime.some
    /\ Len(result.val.code_hashes) = 2

\* C10: a decoded code directory has n_code_slots code hashes and
\* n_special_slots special hashes (none when n_special_slots is 0), every one
\* hash_size bytes long.
C10_HashCounts ==
    DecodedCD =>
        LET hash_size == ReadU8(data, 36)
            special == result.val.special_hashes
        IN
        /\ WNat(Len(result.val.code_hashes)) = ReadU32(data, 28)
        /\ WNat(Cardinality(DOMAIN special)) = ReadU32(data, 24)
        /\ (ReadU32(data, 24) = <<0, 0>> => DOMAIN special = {})
        /\ \A j \in 1..Len(result.val.code_hashes) :
              Len(result.val.code_hashes[j]) = hash_size
        /\ \A k \in DOMAIN special : Len(special[k]) = hash_size

C10_Witness ==
    /\ DecodedCD
    /\ Len(result.val.code_hashes) = 2
    /\ Cardinality(DOMAIN result.val.special_hashes) = 2
    /\ ReadU8(data, 36) = 1

C10_WitnessNoSpecial ==
    /\ DecodedCD
    /\ ReadU32(data, 24) = <<0, 0>>
    /\ Len(result.val.code_hashes) = 1

---------------------------------------------------------------------------
(* Expression::from_bytes and the blob parsers BlobData::from_bytes        *)
(* dispatches to.                                                          *)

\* the nodes without payload, by tag
ExpressionLeaf(tag) ==
    CASE tag = <<0, 0>> -> [node |-> "False"]
      [] tag = <<0, 1>> -> [node |-> "True"]
      [] tag = <<0, 3>> -> [node |-> "AppleAnchor"]
      [] tag = <<0, 4>> -> [node |-> "AnchorHash"]
      [] tag = <<0, 5>> -> [node |-> "InfoKeyValue"]
      [] tag = <<0, 8>> -> [node |-> "CDHash"]
      [] tag = <<0, 9>> -> [node |-> "Not"]
      [] tag = <<0, 10>> -> [node |-> "InfoKeyField"]
      [] tag = <<0, 11>> -> [node |-> "CertField"]
      [] tag = <<0, 12>> -> [node |-> "TrustedCert"]
      [] tag = <<0, 13>> -> [node |-> "TrustedCerts"]
      [] tag = <<0, 14>> -> [node |-> "CertGeneric"]
      [] tag = <<0, 15>> -> [node |-> "AppleGenericAnchor"]
      [] tag = <<0, 16>> -> [node |-> "EntitlementField"]
      [] OTHER -> [node |-> "Other", tag |-> tag]

RECURSIVE Expression_from_bytes(_)
\* Expression::from_bytes: Ok carries the expression and the residual bytes
Expression_from_bytes(d) ==
    IF ~CanRead(d, 0, 4) THEN ScrollError
    ELSE
    LET tag == ReadU32(d, 0)
        \* let data = &data[*offset..], with *offset = 4 after the tag
        rest == Slice(d, 4, Len(d))
    IN
    IF tag = <<0, 2>>
    THEN \* &data[*offset..] once more, on the already advanced slice
         IF Len(rest) < 4 THEN Panic("slice start index out of range")
         ELSE LET s == Slice(rest, 4, Len(rest)) IN
              IF Utf8Valid(s)
              THEN Ok([expr |-> [node |-> "Ident", s |-> s], rest |-> rest])
              ELSE Err("Utf8Error")
    ELSE IF tag = <<0, 6>> \/ tag = <<0, 7>>
    THEN LET a == Expression_from_bytes(rest) IN
         IF a.tag # "Ok" THEN a
         ELSE LET b == Expression_from_bytes(a.val.rest) IN
              IF b.tag # "Ok" THEN b
              ELSE Ok([expr |-> [node |-> IF tag = <<0, 6>> THEN "And" ELSE "Or",
                                 a |-> a.val.expr, b |-> b.val.expr],
                       rest |-> b.val.rest])
    ELSE Ok([expr |-> ExpressionLeaf(tag), rest |-> rest])

\* RequirementBlob::from_bytes
RequirementBlob_from_bytes(d) ==
    LET rest == read_and_validate_blob_header(d, CSMAGIC_REQUIREMENT) IN
    IF rest.tag # "Ok" THEN rest
    ELSE LET e == Expression_from_bytes(rest.val) IN
         IF e.tag # "Ok" THEN e ELSE Ok([expression |-> e.val.expr])

\* EmbeddedSignatureBlob, EmbeddedSignatureOldBlob, DetachedSignatureBlob and
\* BlobWrapperBlob ::from_bytes: the bytes after the validated header
HeaderStrippedBlob_from_bytes(d, expected_magic) ==
    LET rest == read_and_validate_blob_header(d, expected_magic) IN
    IF rest.tag # "Ok" THEN rest ELSE Ok([data |-> rest.val])

\* EntitlementsBlob::from_bytes
EntitlementsBlob_from_bytes(d) ==
    LET rest == read_and_validate_blob_header(d, CSMAGIC_EMBEDDED_ENTITLEMENTS) IN
    IF rest.tag # "Ok" THEN rest
    ELSE IF ~Utf8Valid(rest.val) THEN Err("Utf8Error")
    ELSE Ok([plist |-> rest.val])

BlobDataVariant_AlwaysBlobWrapper(magic) == "BlobWrapper"

\* the BlobData variant a magic is dispatched to
BlobDataVariant(magic) ==
    LET m == CodeSigningMagic_from(magic) IN
    IF m.tag = "Unknown" THEN "Other" ELSE m.tag

\* Self::Variant(Parser::from_bytes(data)?): the parser's failure, or its
\* value under the variant
BlobDataOf(variant, parsed) ==
    IF parsed.tag # "Ok" THEN parsed
    ELSE Ok([variant |-> variant, blob |-> parsed.val])

RECURSIVE BlobData_from_bytes(_, _)
RECURSIVE RequirementsBlob_from_bytes(_, _)

\* BlobData::from_bytes, under build profile b
BlobData_from_bytes(d0, b) ==
    LET h == read_blob_header(d0) IN
    IF h.tag # "Ok" THEN h
    ELSE
    LET magic == h.val.magic
        length == h.val.length
    IN
    \* let data = &data[0..length]
    IF ~SliceOk(d0, <<0, 0>>, length) THEN Panic("slice end index out of range")
    ELSE
    LET d == Slice(d0, 0, ToNat(length))
        variant == BlobDataVariant(magic)
    IN  BlobDataOf(variant,
            CASE variant = "Requirement" -> RequirementBlob_from_bytes(d)
              [] variant = "Requirements" -> RequirementsBlob_from_bytes(d, b)
              [] variant = "CodeDirectory" -> CodeDirectoryBlob_from_bytes(d, b)
              [] variant = "EmbeddedEntitlements" -> EntitlementsBlob_from_bytes(d)
              [] variant = "Other" ->
                    Ok([magic |-> magic, length |-> length, data |-> d])
              [] OTHER -> HeaderStrippedBlob_from_bytes(d, magic))

RequirementsBlob_from_bytes_NoSegments(d, b) ==
    LET hdr == read_and_validate_blob_header(d, CSMAGIC_REQUIREMENTS) IN
    IF hdr.tag # "Ok" THEN hdr ELSE Ok([segments |-> <<>>])

\* RequirementsBlob::from_bytes.  A segment framed as the whole of d, which
\* BlobData::from_bytes would hand back to this parser unchanged, recurses
\* without end: the outcome is the stack overflow.
RequirementsBlob_from_bytes(d, b) ==
    LET hdr == read_and_validate_blob_header(d, CSMAGIC_REQUIREMENTS) IN
    IF hdr.tag # "Ok" THEN hdr
    ELSE IF ~CanRead(d, 8, 4) THEN ScrollError
    ELSE
    LET count == ReadU32(d, 8)
        avail == (Len(d) - 12) \div 8
    IN
    IF WLt(WNat(avail), count) THEN ScrollError
    ELSE
    LET n == ToNat(count)
        \* (type, offset) pairs
        indices == [i \in 1..n |-> ReadBlobIndex(d, 12 + 8 * (i - 1))]
        end_offset(i) == IF i = n THEN WNat(Len(d)) ELSE indices[i + 1].offset
        RECURSIVE segments(_)
        \* the segments from the i-th on, or the first failure
        segments(i) ==
            IF i > n THEN Ok(<<>>)
            ELSE IF ~SliceOk(d, indices[i].offset, end_offset(i))
            THEN Panic("slice index out of range")
            ELSE
            LET segment_data ==
                    Slice(d, ToNat(indices[i].offset), ToNat(end_offset(i)))
            IN
            IF segment_data = d /\ ReadU32(d, 4) = WNat(Len(d))
            THEN Panic("stack overflow")
            ELSE
            LET seg == BlobData_from_bytes(segment_data, b) IN
            IF seg.tag # "Ok" THEN seg
            ELSE LET more == segments(i + 1) IN
                 IF more.tag # "Ok" THEN more
                 ELSE Ok(<<seg.val>> \o more.val)
    IN
    LET segs == segments(1) IN
    IF segs.tag # "Ok" THEN segs ELSE Ok([segments |-> segs.val])

---------------------------------------------------------------------------
(* SpecBlob: header-inclusive blob slices handed to BlobData::from_bytes.  *)
(* A buffer starts as a well-formed blob of one of the kinds, possibly     *)
(* followed by bytes beyond its advertised length; it can be cut short     *)
(* byte by byte or have one aligned u32 overwritten.                       *)

MaxTrailing == 1
MaxSegments == 2

UnknownMagicSample == <<51966, 53261>>

\* wire forms of True, Ident("x"), Ident("abcde"), And(True, Ident("x")),
\* Or(False, AppleAnchor) and of the unknown tag 17
ExprTrue == U32Bytes(<<0, 1>>)
ExprIdentX == U32Bytes(<<0, 2>>) \o <<120>>
ExprIdentAbcde == U32Bytes(<<0, 2>>) \o <<97, 98, 99, 100, 101>>
ExprAndTrueIdentX == U32Bytes(<<0, 6>>) \o ExprTrue \o ExprIdentX
ExprOrFalseAppleAnchor ==
    U32Bytes(<<0, 7>>) \o U32Bytes(<<0, 0>>) \o U32Bytes(<<0, 3>>)
ExprOther17 == U32Bytes(<<0, 17>>)

ExprSamples ==
    { ExprTrue, ExprIdentX, ExprIdentAbcde, ExprAndTrueIdentX,
      ExprOrFalseAppleAnchor, ExprOther17 }

NestedExprSamples == { ExprIdentAbcde, ExprAndTrueIdentX, ExprOrFalseAppleAnchor }

\* a Requirements blob holding the blobs bs: count, (type, offset) pairs, blobs
RequirementsBytes(bs) ==
    LET n == Len(bs)
        start(i) == 12 + 8 * n + Len(Flatten(SubSeq(bs, 1, i - 1)))
        index == [i \in 1..n |-> U32Bytes(<<0, 3>>) \o U32Bytes(WNat(start(i)))]
        total == 12 + 8 * n + Len(Flatten(bs))
    IN  U32Bytes(CSMAGIC_REQUIREMENTS) \o U32Bytes(WNat(total))
            \o U32Bytes(WNat(n)) \o Flatten(index) \o Flatten(bs)

BlobSamples ==
    { BlobBytes(m, Payload(p)) :
        m \in { CSMAGIC_EMBEDDED_SIGNATURE, CSMAGIC_EMBEDDED_SIGNATURE_OLD,
                CSMAGIC_EMBEDDED_ENTITLEMENTS, CSMAGIC_DETACHED_SIGNATURE,
                CSMAGIC_BLOBWRAPPER, UnknownMagicSample },
        p \in 0..MaxPayload }
    \cup { BlobBytes(CSMAGIC_REQUIREMENT, e) : e \in ExprSamples }
    \cup UNION { { RequirementsBytes(bs) :
                     bs \in [1..n -> { BlobBytes(CSMAGIC_REQUIREMENT, e) :
                                         e \in NestedExprSamples }] } :
                 n \in 0..MaxSegments }
    \cup { CDBytes(<<2, 0>>, 0, 1), CDBytes(<<2, 1024>>, 1, 1) }

BlobCorruptValues ==
    { <<0, 0>>, <<0, 2>>, <<0, 6>>, <<0, 8>>, <<0, 12>>, <<0, 17>>, <<1, 0>>,
      <<65535, 65535>>, CSMAGIC_REQUIREMENT, CSMAGIC_REQUIREMENTS,
      UnknownMagicSample }

InitBlob ==
    /\ \E blob \in BlobSamples : \E t \in 0..MaxTrailing :
          data = blob \o [i \in 1..t |-> 33]
    /\ build = "release"
    /\ result = NoResult
    /\ op = "none"
    /\ wire = <<0, 0>>
    /\ val = Idle

CorruptBlob ==
    /\ op = "none"
    /\ \E w \in 0..((Len(data) \div 4) - 1) : \E v \in BlobCorruptValues :
          /\ ReadU32(data, 4 * w) # v
          /\ data' = SubSeq(data, 1, 4 * w) \o U32Bytes(v)
                        \o SubSeq(data, 4 * w + 5, Len(data))
    /\ result' = NoResult
    /\ op' = "corrupt"
    /\ UNCHANGED <<build, wire, val>>

DecodeBlob ==
    /\ op \in {"none", "truncate", "corrupt"}
    /\ \E b \in {"debug", "release"} :
          /\ build' = b
          /\ result' = BlobData_from_bytes(data, b)
    /\ op' = "BlobData::from_bytes"
    /\ UNCHANGED <<data, wire, val>>

NextBlob == Truncate \/ CorruptBlob \/ DecodeBlob

SpecBlob == InitBlob /\ [][NextBlob]_vars

\* C7: for a header-inclusive slice holding the advertised length, an unknown
\* magic gives Ok(Other((magic, length, first `length` bytes))), and each of
\* the eight known magics gives the variant of its name or its parser's error.
C7_Dispatch ==
    (/\ op = "BlobData::from_bytes"
     /\ Len(data) >= 8
     /\ WLe(ReadU32(data, 4), WNat(Len(data)))) =>
        LET magic == ReadU32(data, 0)
            length == ReadU32(data, 4)
        IN  IF magic \notin MagicConstants
            THEN result = Ok([variant |-> "Other",
                              blob |-> [magic |-> magic,
                                        length |-> length,
                                        data |-> Slice(data, 0, ToNat(length))]])
            ELSE \/ result.tag = "Err"
                 \/ /\ result.tag = "Ok"
                    /\ result.val.variant = CodeSigningMagic_from(magic).tag

\* the part of C7 about unknown magics alone
C7_UnknownMagicIsOther ==
    (/\ op = "BlobData::from_bytes"
     /\ Len(data) >= 8
     /\ WLe(ReadU32(data, 4), WNat(Len(data)))
     /\ ReadU32(data, 0) \notin MagicConstants) =>
        result = Ok([variant |-> "Other",
                     blob |-> [magic |-> ReadU32(data, 0),
                               length |-> ReadU32(data, 4),
                               data |-> Slice(data, 0, ToNat(ReadU32(data, 4)))]])

---------------------------------------------------------------------------
(* Claims about the hash regions and the identifier of a code directory,  *)
(* checked under SpecCD.                                                   *)

\* every step of CodeDirectoryBlob::from_bytes before the identifier is
\* looked up succeeds on data: header, fixed and version-gated fields
CDHeaderDecodes ==
    /\ read_and_validate_blob_header(data, CSMAGIC_CODEDIRECTORY).tag = "Ok"
    /\ CanRead(data, 8, 36)
    /\ ReadU8(data, 39) < 32
    /\ CanRead(data, 44, CDCursor(ReadU32(data, 8)).end - 44)

\* ... and so does the identifier lookup
CDIdentDecodes ==
    /\ CDHeaderDecodes
    /\ SliceOk(data, ReadU32(data, 20), WNat(Len(data)))
    /\ Utf8Valid(FirstSplit(Slice(data, ToNat(ReadU32(data, 20)), Len(data))))

\* hash_size * n_special_slots exceeds hash_offset
CDSpecialUnderflows ==
    WLt(ReadU32(data, 16), WMul8(ReadU32(data, 24), ReadU8(data, 36)))

\* the code hash region or the special hash region leaves the blob
CDHashRegionOutside ==
    \/ ~SliceOk(data, ReadU32(data, 16),
                WAdd(ReadU32(data, 16), WMul8(ReadU32(data, 28), ReadU8(data, 36))))
    \/ /\ ~CDSpecialUnderflows
       /\ ~SliceOk(data,
                   WSub(ReadU32(data, 16), WMul8(ReadU32(data, 24), ReadU8(data, 36))),
                   ReadU32(data, 16))

\* C11: when hash_size * n_special_slots exceeds hash_offset, or a hash
\* region does not lie inside the blob, the code directory decoder returns a
\* BadOffset error; it never wraps the subtraction and never panics.
C11_BadOffsetOnBadHashRegion ==
    (op = "CodeDirectoryBlob::from_bytes" /\ CDIdentDecodes) =>
        /\ result.tag # "Panic"
        /\ (CDSpecialUnderflows \/ CDHashRegionOutside) => result = Err("BadOffset")

\* the bytes of the blob from ident_offset on
CDIdentRest == Slice(data, ToNat(ReadU32(data, 20)), Len(data))

CDIdentHasNul == \E i \in 1..Len(CDIdentRest) : CDIdentRest[i] = 0

\* the bytes before the first NUL byte at or after ident_offset
CDIdentBeforeNul ==
    LET k == CHOOSE i \in 1..Len(CDIdentRest) :
                /\ CDIdentRest[i] = 0
                /\ \A j \in 1..(i - 1) : CDIdentRest[j] # 0
    IN  SubSeq(CDIdentRest, 1, k - 1)

\* the part of C12 about identifiers that are terminated: the identifier is
\* the bytes before the first NUL, or Utf8Error when they are not UTF-8
C12_TerminatedIdent ==
    (/\ op = "CodeDirectoryBlob::from_bytes"
     /\ CDHeaderDecodes
     /\ SliceOk(data, ReadU32(data, 20), WNat(Len(data)))
     /\ CDIdentHasNul) =>
        /\ ~Utf8Valid(CDIdentBeforeNul) => result = Err("Utf8Error")
        /\ result.tag = "Ok" => result.val.ident = CDIdentBeforeNul

\* C12: the identifier of a decoded code directory is the bytes from
\* ident_offset up to the first NUL byte, validated as UTF-8; when no NUL byte
\* occurs between ident_offset and the end of the blob (ident_offset at the
\* end included) the decoder returns BadIdentifierString.
C12_IdentOrBadIdentifier ==
    (/\ op = "CodeDirectoryBlob::from_bytes"
     /\ CDHeaderDecodes
     /\ SliceOk(data, ReadU32(data, 20), WNat(Len(data)))) =>
        IF CDIdentHasNul
        THEN /\ ~Utf8Valid(CDIdentBeforeNul) => result = Err("Utf8Error")
             /\ result.tag = "Ok" => result.val.ident = CDIdentBeforeNul
        ELSE result = Err("BadIdentifierString")

---------------------------------------------------------------------------
(* The accessors of a decoded EmbeddedSignature.                           *)

\* ParsedBlob::try_from(blob_entry), reached through into_parsed_blob:
\* the `?` on the parser's result and the struct built from its value
ParsedBlobOf(blob_entry, blob) ==
    IF blob.tag # "Ok" THEN blob
    ELSE Ok([blob_entry |-> blob_entry, blob |-> blob.val])

\* let blob = BlobData::from_bytes(blob_entry.data)?; Ok(Self { .. })
ParsedBlob_try_from(blob_entry, b) ==
    ParsedBlobOf(blob_entry, BlobData_from_bytes(blob_entry.data, b))

find_slot_LastMatch(self, slot) ==
    LET hits == {i \in 1..Len(self.blobs) : self.blobs[i].slot = slot} IN
    IF hits = {} THEN None
    ELSE Some(self.blobs[CHOOSE i \in hits : \A j \in hits : j <= i])

\* EmbeddedSignature::find_slot: self.blobs.iter().find(|e| e.slot == slot)
find_slot(self, slot) ==
    LET hits == {i \in 1..Len(self.blobs) : self.blobs[i].slot = slot} IN
    IF hits = {} THEN None ELSE Some(self.blobs[Min(hits)])

\* Ok(Some(x?))
OkSome(parsed) == IF parsed.tag # "Ok" THEN parsed ELSE Ok(Some(parsed.val))

\* EmbeddedSignature::find_slot_parsed
find_slot_parsed(self, slot, b) ==
    LET entry == find_slot(self, slot) IN
    IF entry.some THEN OkSome(ParsedBlob_try_from(entry.v, b)) ELSE Ok(None)

\* code_directory, requirements and signature_data share one shape: the
\* parsed blob of a slot, unwrapped when it is of the wanted variant
\* (if let BlobData::Variant(x) = parsed.blob), BadMagic otherwise
UnwrapVariant(found, variant) ==
    IF found.tag # "Ok" THEN found
    ELSE IF found.val.some
    THEN IF found.val.v.blob.variant = variant
         THEN Ok(Some(IF variant = "BlobWrapper"
                      THEN found.val.v.blob.blob.data
                      ELSE found.val.v.blob.blob))
         ELSE Err("BadMagic")
    ELSE Ok(None)

SlotAccessor(self, slot, variant, b) ==
    UnwrapVariant(find_slot_parsed(self, slot, b), variant)

\* EmbeddedSignature::code_directory
code_directory(self, b) ==
    SlotAccessor(self, Slot("CodeDirectory"), "CodeDirectory", b)

\* EmbeddedSignature::requirements
requirements(self, b) ==
    SlotAccessor(self, Slot("Requirements"), "Requirements", b)

\* EmbeddedSignature::signature_data
signature_data(self, b) ==
    SlotAccessor(self, Slot("Signature"), "BlobWrapper", b)

---------------------------------------------------------------------------
(* SpecSig: a super-blob is decoded and its accessors are called.  The     *)
(* buffer starts as a well-formed super-blob of up to MaxEntries blobs     *)
(* (code directory, requirements, signature wrapper, and blobs of another  *)
(* type than their slot announces); it can be cut short or have one u32    *)
(* overwritten before it is decoded.  val holds the decoded                *)
(* EmbeddedSignature, wire the u32 of the slot an accessor is asked for.   *)

MaxEntries == 2

SigBlobSpecs ==
    { [typ |-> CSSLOT_CODEDIRECTORY, bytes |-> CDBytes(<<0, 0>>, 0, 0)],
      [typ |-> CSSLOT_CODEDIRECTORY,
       bytes |-> BlobBytes(CSMAGIC_BLOBWRAPPER, Payload(1))],
      [typ |-> CSSLOT_REQUIREMENTS, bytes |-> RequirementsBytes(<<>>)],
      [typ |-> CSSLOT_REQUIREMENTS,
       bytes |-> BlobBytes(CSMAGIC_REQUIREMENT, ExprTrue)],
      [typ |-> CSSLOT_SIGNATURESLOT,
       bytes |-> BlobBytes(UnknownMagicSample, <<>>)],
      \* a wrapper followed by a byte beyond its advertised length
      [typ |-> CSSLOT_SIGNATURESLOT,
       bytes |-> BlobBytes(CSMAGIC_BLOBWRAPPER, Payload(1)) \o <<33>>] }
    \cup { [typ |-> CSSLOT_SIGNATURESLOT,
            bytes |-> BlobBytes(CSMAGIC_BLOBWRAPPER, Payload(p))] :
           p \in 0..MaxPayload }

\* the super-blob whose i-th index record announces es[i].typ at the offset
\* where es[i].bytes is laid out
SigBytes(es) ==
    LET n == Len(es)
        blobs == [i \in 1..n |-> es[i].bytes]
        start(i) == 12 + 8 * n + Len(Flatten(SubSeq(blobs, 1, i - 1)))
        index == [i \in 1..n |-> U32Bytes(es[i].typ) \o U32Bytes(WNat(start(i)))]
        total == 12 + 8 * n + Len(Flatten(blobs))
    IN  U32Bytes(CSMAGIC_EMBEDDED_SIGNATURE) \o U32Bytes(WNat(total))
            \o U32Bytes(WNat(n)) \o Flatten(index) \o Flatten(blobs)

\* the slots the accessors are asked for, as u32
SlotArgSamples ==
    { CSSLOT_CODEDIRECTORY, CSSLOT_REQUIREMENTS, CSSLOT_SIGNATURESLOT,
      <<57005, 48879>> }

InitSig ==
    /\ \E n \in 0..MaxEntries : \E es \in [1..n -> SigBlobSpecs] :
          data = SigBytes(es)
    /\ build = "release"
    /\ result = NoResult
    /\ op = "none"
    /\ wire = <<0, 0>>
    /\ val = Idle

\* EmbeddedSignature::from_bytes(data); the value is kept when it is Ok
FromBytesSig ==
    /\ op \in {"none", "truncate", "corrupt"}
    /\ result' = EmbeddedSignature_from_bytes(data)
    /\ val' = IF result'.tag = "Ok" THEN result'.val ELSE Idle
    /\ op' = "EmbeddedSignature::from_bytes"
    /\ UNCHANGED <<data, build, wire>>

\* the accessors borrow the decoded value and leave it as it is: each is
\* applied to the value as from_bytes returned it
Constructed == op = "EmbeddedSignature::from_bytes" /\ val # Idle

FindSlot ==
    /\ Constructed
    /\ \E w \in SlotArgSamples :
          /\ wire' = w
          /\ result' = Ok(find_slot(val, CodeSigningSlot_from(w)))
    /\ op' = "find_slot"
    /\ UNCHANGED <<data, build, val>>

FindSlotParsed ==
    /\ Constructed
    /\ \E w \in SlotArgSamples : \E b \in {"debug", "release"} :
          /\ wire' = w
          /\ build' = b
          /\ result' = find_slot_parsed(val, CodeSigningSlot_from(w), b)
    /\ op' = "find_slot_parsed"
    /\ UNCHANGED <<data, val>>

CodeDirectory ==
    /\ Constructed
    /\ \E b \in {"debug", "release"} :
          /\ build' = b
          /\ result' = code_directory(val, b)
    /\ wire' = CSSLOT_CODEDIRECTORY
    /\ op' = "code_directory"
    /\ UNCHANGED <<data, val>>

Requirements ==
    /\ Constructed
    /\ \E b \in {"debug", "release"} :
          /\ build' = b
          /\ result' = requirements(val, b)
    /\ wire' = CSSLOT_REQUIREMENTS
    /\ op' = "requirements"
    /\ UNCHANGED <<data, val>>

SignatureData ==
    /\ Constructed
    /\ \E b \in {"debug", "release"} :
          /\ build' = b
          /\ result' = signature_data(val, b)
    /\ wire' = CSSLOT_SIGNATURESLOT
    /\ op' = "signature_data"
    /\ UNCHANGED <<data, val>>

NextSig ==
    \/ Truncate \/ Corrupt \/ FromBytesSig
    \/ FindSlot \/ FindSlotParsed \/ CodeDirectory \/ Requirements
    \/ SignatureData

SpecSig == InitSig /\ [][NextSig]_vars

\* the positions of the decoded entries whose slot is s
EntriesOfSlot(s) == {i \in 1..Len(val.blobs) : val.blobs[i].slot = s}

\* the slot and the BlobData variant each convenience accessor is about
AccessorSlots ==
    [code_directory |-> [slot |-> Slot("CodeDirectory"), variant |-> "CodeDirectory"],
     requirements |-> [slot |-> Slot("Requirements"), variant |-> "Requirements"],
     signature_data |-> [slot |-> Slot("Signature"), variant |-> "BlobWrapper"]]

\* C13: find_slot(s) returns the entry of smallest index among those whose
\* slot is s, or None when there is none; code_directory, requirements and
\* signature_data return Ok(None) exactly when no entry has their slot, and
\* Err(BadMagic) when the first such entry parses to a blob of another type.
C13_FirstMatchAndBadMagic ==
    /\ op = "find_slot" =>
          LET hits == EntriesOfSlot(CodeSigningSlot_from(wire)) IN
          IF hits = {} THEN result = Ok(None)
          ELSE \E i \in hits :
                  /\ \A j \in hits : i <= j
                  /\ result = Ok(Some(val.blobs[i]))
                  /\ val.blobs[i].index = i - 1
    /\ op \in DOMAIN AccessorSlots =>
          LET hits == EntriesOfSlot(AccessorSlots[op].slot) IN
          /\ result = Ok(None) <=> hits = {}
          /\ hits # {} =>
                LET parsed == BlobData_from_bytes(val.blobs[Min(hits)].data, build) IN
                (parsed.tag = "Ok" /\ parsed.val.variant # AccessorSlots[op].variant)
                    => result = Err("BadMagic")

\* two Signature entries: find_slot gives the first of them
C13_Witness ==
    /\ op = "find_slot"
    /\ wire = CSSLOT_SIGNATURESLOT
    /\ Len(val.blobs) = 2
    /\ val.blobs[1].slot = Slot("Signature")
    /\ val.blobs[2].slot = Slot("Signature")
    /\ val.blobs[1].data # val.blobs[2].data
    /\ result = Ok(Some(val.blobs[1]))

\* a CodeDirectory slot, second in the index, that holds a blob wrapper
C13_WitnessBadMagic ==
    /\ op = "code_directory"
    /\ Len(val.blobs) = 2
    /\ val.blobs[1].slot = Slot("Signature")
    /\ val.blobs[2].slot = Slot("CodeDirectory")
    /\ val.blobs[2].magic = Magic("BlobWrapper")
    /\ result = Err("BadMagic")

\* no Requirements slot among two entries
C13_WitnessNone ==
    /\ op = "requirements"
    /\ Len(val.blobs) = 2
    /\ result = Ok(None)

\* the first decoded entry of the Signature slot is a blob wrapper
FirstSignatureIsWrapper ==
    /\ EntriesOfSlot(Slot("Signature")) # {}
    /\ val.blobs[Min(EntriesOfSlot(Slot("Signature")))].magic = Magic("BlobWrapper")

\* C14: when the first Signature-slot entry is a BlobWrapper of advertised
\* length L, signature_data() returns Ok(Some(bytes)) with bytes exactly the
\* blob's bytes [8, L).
C14_SignatureIsWrapperPayload ==
    (op = "signature_data" /\ FirstSignatureIsWrapper) =>
        LET e == val.blobs[Min(EntriesOfSlot(Slot("Signature")))] IN
        /\ result.tag = "Ok"
        /\ result.val.some
        /\ WLe(<<0, 8>>, e.length)
        /\ SliceOk(data, WNat(e.offset + 8), WAdd(WNat(e.offset), e.length))
        /\ result.val.v = Slice(data, e.offset + 8, e.offset + ToNat(e.length))

\* the same for an advertised length that covers the header and fits the
\* bytes framed for the entry
C14_WithinSpan ==
    (/\ op = "signature_data"
     /\ FirstSignatureIsWrapper
     /\ LET e == val.blobs[Min(EntriesOfSlot(Slot("Signature")))] IN
        WLe(<<0, 8>>, e.length) /\ WLe(e.length, WNat(Len(e.data)))) =>
        LET e == val.blobs[Min(EntriesOfSlot(Slot("Signature")))] IN
        result = Ok(Some(Slice(data, e.offset + 8, e.offset + ToNat(e.length))))

\* a wrapper with one payload byte and one byte beyond its advertised length
C14_WitnessWithinSpan ==
    /\ op = "signature_data"
    /\ FirstSignatureIsWrapper
    /\ Len(val.blobs[Min(EntriesOfSlot(Slot("Signature")))].data) = 10
    /\ result = Ok(Some(<<121>>))

---------------------------------------------------------------------------
(* find_signature_data, on the view goblin gives of a Mach-O file: the     *)
(* load commands and the segments.                                         *)
(*                                                                         *)
(* usize is 64 bits wide.  A usize value near 0 or near 2^64 is held as an *)
(* integer s: the value s when s >= 0, the value 2^64 + s when s < 0.      *)
(* Differences and sums of such values are then the integer difference and *)
(* sum, and what remains is to tell when the true result leaves 0..2^64-1. *)

\* a < b as usize values
USizeLt(a, b) == (a >= 0 /\ b < 0) \/ ((a >= 0 <=> b >= 0) /\ a < b)

\* a - b on usize: panics with overflow checks, wraps without
USizeSub(a, b, bld) ==
    IF USizeLt(a, b) /\ bld = "debug"
    THEN Panic("attempt to subtract with overflow")
    ELSE Ok(a - b)

\* a + b on usize, b >= 0
USizeAdd(a, b, bld) ==
    IF a < 0 /\ a + b >= 0 /\ bld = "debug"
    THEN Panic("attempt to add with overflow")
    ELSE Ok(a + b)

\* the positions of the CodeSignature load commands
CodeSignatureCommands(obj) ==
    {i \in 1..Len(obj.load_commands) : obj.load_commands[i].kind = "CodeSignature"}

\* the positions of the segments whose name() is Ok("__LINKEDIT")
LinkeditSegments(obj) ==
    {i \in 1..Len(obj.segments) : obj.segments[i].name = Ok("__LINKEDIT")}

FirstLinkedit_Last(obj) ==
    CHOOSE i \in LinkeditSegments(obj) : \A j \in LinkeditSegments(obj) : j <= i

\* obj.segments.iter().enumerate().find(..): the first match
FirstLinkedit(obj) == Min(LinkeditSegments(obj))

\* the window of the segment data the command points at, once command and
\* segment are found
SignatureWindow(obj, command, seg_index, bld) ==
    LET linkedit == obj.segments[seg_index]
        start == USizeSub(command.dataoff, linkedit.fileoff, bld)
    IN
    IF start.tag # "Ok" THEN start
    ELSE
    LET end == USizeAdd(start.val, command.datasize, bld) IN
    IF end.tag # "Ok" THEN end
    ELSE IF ~(0 <= start.val /\ start.val <= end.val /\ end.val <= Len(linkedit.data))
    THEN Panic("slice index out of range")
    ELSE Ok(Some([segments_count |-> Len(obj.segments),
                  linkedit_segment_index |-> seg_index - 1,
                  signature_start_offset |-> start.val,
                  signature_end_offset |-> end.val,
                  linkedit_segment_data |-> linkedit.data,
                  signature_data |-> Slice(linkedit.data, start.val, end.val)]))

\* fn find_signature_data
find_signature_data(obj, bld) ==
    IF CodeSignatureCommands(obj) # {}
    THEN IF LinkeditSegments(obj) = {} THEN Err("MissingLinkedit")
         ELSE SignatureWindow(obj,
                              obj.load_commands[Min(CodeSignatureCommands(obj))],
                              FirstLinkedit(obj), bld)
    ELSE Ok(None)

---------------------------------------------------------------------------
(* SpecMachO: a Mach-O view is put together command by command and segment *)
(* by segment, then searched for its signature data.  val holds the view.  *)

MaxCommands == 2
MaxMachOSegments == 2

CommandSamples ==
    { [kind |-> "Other"],
      [kind |-> "CodeSignature", dataoff |-> 4, datasize |-> 2],
      [kind |-> "CodeSignature", dataoff |-> 1, datasize |-> 1],
      [kind |-> "CodeSignature", dataoff |-> 0, datasize |-> 5] }

\* name is what segment.name() returns; a fileoff of -1 is 2^64 - 1
SegmentSamples ==
    { [name |-> Ok("__TEXT"), fileoff |-> 0, data |-> <<1, 2>>],
      [name |-> Err("Utf8Error"), fileoff |-> 0, data |-> <<>>],
      [name |-> Ok("__LINKEDIT"), fileoff |-> 2, data |-> <<11, 12, 13, 14>>],
      [name |-> Ok("__LINKEDIT"), fileoff |-> 0, data |-> <<21, 22>>],
      [name |-> Ok("__LINKEDIT"), fileoff |-> -1, data |-> <<31, 32, 33>>] }

InitMachO ==
    /\ val = [load_commands |-> <<>>, segments |-> <<>>]
    /\ data = <<>>
    /\ build = "release"
    /\ result = NoResult
    /\ op = "none"
    /\ wire = <<0, 0>>

PushLoadCommand ==
    /\ op = "none"
    /\ Len(val.load_commands) < MaxCommands
    /\ \E c \in CommandSamples :
          val' = [val EXCEPT !.load_commands = Append(@, c)]
    /\ UNCHANGED <<data, build, result, op, wire>>

PushSegment ==
    /\ op = "none"
    /\ Len(val.segments) < MaxMachOSegments
    /\ \E s \in SegmentSamples :
          val' = [val EXCEPT !.segments = Append(@, s)]
    /\ UNCHANGED <<data, build, result, op, wire>>

FindSignatureData ==
    /\ op = "none"
    /\ \E b \in {"debug", "release"} :
          /\ build' = b
          /\ result' = find_signature_data(val, b)
    /\ op' = "find_signature_data"
    /\ UNCHANGED <<data, wire, val>>

NextMachO == PushLoadCommand \/ PushSegment \/ FindSignatureData

SpecMachO == InitMachO /\ [][NextMachO]_vars

\* C15: find_signature_data returns Ok(None) when there is no code-signature
\* load command (with or without a __LINKEDIT segment), Err(MissingLinkedit)
\* when there is such a command but no segment named __LINKEDIT, and with
\* both it uses the first such command and the first __LINKEDIT segment and
\* reports that segment's index.
C15_PresenceAndFirstMatch ==
    op = "find_signature_data" =>
        LET cmds == CodeSignatureCommands(val)
            segs == LinkeditSegments(val)
        IN
        /\ cmds = {} => result = Ok(None)
        /\ (cmds # {} /\ segs = {}) => result = Err("MissingLinkedit")
        /\ (cmds # {} /\ segs # {}) =>
              /\ result # Ok(None)
              /\ result.tag # "Err"
              /\ result.tag = "Ok" =>
                    LET c == val.load_commands[Min(cmds)]
                        s == val.segments[Min(segs)]
                        r == result.val.v
                    IN
                    /\ r.linkedit_segment_index = Min(segs) - 1
                    /\ r.linkedit_segment_data = s.data
                    /\ r.signature_start_offset = c.dataoff - s.fileoff
                    /\ r.signature_end_offset - r.signature_start_offset = c.datasize
                    /\ r.segments_count = Len(val.segments)

\* two code-signature commands and two __LINKEDIT segments: the first of each
C15_Witness ==
    /\ op = "find_signature_data"
    /\ Len(val.load_commands) = 2
    /\ val.load_commands[1] = [kind |-> "CodeSignature", dataoff |-> 4, datasize |-> 2]
    /\ val.load_commands[2] = [kind |-> "CodeSignature", dataoff |-> 1, datasize |-> 1]
    /\ Len(val.segments) = 2
    /\ val.segments[1].name = Ok("__LINKEDIT") /\ val.segments[1].fileoff = 2
    /\ val.segments[2].name = Ok("__LINKEDIT") /\ val.segments[2].fileoff = 0
    /\ result.tag = "Ok"
    /\ result.val.v.linkedit_segment_index = 0
    /\ result.val.v.signature_data = <<13, 14>>

\* a code-signature command, and segments none of which is named __LINKEDIT
C15_WitnessMissingLinkedit ==
    /\ op = "find_signature_data"
    /\ CodeSignatureCommands(val) # {}
    /\ Len(val.segments) = 2
    /\ result = Err("MissingLinkedit")

\* a __LINKEDIT segment after another segment, and no code-signature command
C15_WitnessNoCommand ==
    /\ op = "find_signature_data"
    /\ Len(val.load_commands) = 1
    /\ LinkeditSegments(val) = {2}
    /\ result = Ok(None)

---------------------------------------------------------------------------
(* HashType: the conversion from the wire byte and the digest.             *)

CS_HASHTYPE_SHA1 == 1
CS_HASHTYPE_SHA256 == 2
CS_HASHTYPE_SHA256_TRUNCATED == 3
CS_HASHTYPE_SHA384 == 4

HashTypeOf(name) == Variant("HashType", name)
HashTypeUnknown(v) == Unknown("HashType", v)

\* impl From<u8> for HashType
HashType_from(v) ==
    CASE v = 0 -> HashTypeOf("None")
      [] v = CS_HASHTYPE_SHA1 -> HashTypeOf("Sha1")
      [] v = CS_HASHTYPE_SHA256 -> HashTypeOf("Sha256")
      [] v = CS_HASHTYPE_SHA256_TRUNCATED -> HashTypeOf("Sha256Truncated")
      [] v = CS_HASHTYPE_SHA384 -> HashTypeOf("Sha384")
      [] OTHER -> HashTypeUnknown(v)

\* HashType::as_hasher: the ring algorithm of the context, or the error
as_hasher(self) ==
    CASE self.tag = "Sha1" -> Ok("SHA1_FOR_LEGACY_USE_ONLY")
      [] self.tag \in {"Sha256", "Sha256Truncated"} -> Ok("SHA256")
      [] self.tag = "Sha384" -> Ok("SHA384")
      [] OTHER -> Err("hasher not implemented")

\* the digest ring computes: the algorithm applied to all of the input
RingDigest(algorithm, d) == [algorithm |-> algorithm, input |-> d]

digest_TruncatedAsSha256(self, d) ==
    LET hasher == as_hasher(self) IN
    IF hasher.tag # "Ok" THEN hasher ELSE Ok(RingDigest(hasher.val, d))

\* HashType::digest
digest(self, d) ==
    LET hasher == as_hasher(self) IN
    IF hasher.tag # "Ok" THEN hasher
    ELSE IF self.tag = "Sha256Truncated" THEN Panic("not implemented")
    ELSE Ok(RingDigest(hasher.val, d))

---------------------------------------------------------------------------
(* SpecHash: a hash type is read from its wire byte, or built as           *)
(* Unknown(v), and asked to digest a buffer.  val holds the hash type.     *)

MaxInput == 2

InitHash ==
    /\ \E n \in 0..MaxInput : data = [i \in 1..n |-> 64 + i]
    /\ build = "release"
    /\ result = NoResult
    /\ op = "none"
    /\ wire = <<0, 0>>
    /\ val = Idle

HashTypeFromU8 ==
    /\ op = "none"
    /\ \E v \in 0..255 :
          /\ wire' = <<0, v>>
          /\ val' = HashType_from(v)
    /\ op' = "HashType::from"
    /\ UNCHANGED <<data, build, result>>

\* Unknown is a public variant: any payload can be given to it
HashTypeMakeUnknown ==
    /\ op = "none"
    /\ \E v \in 0..255 :
          /\ wire' = <<0, v>>
          /\ val' = HashTypeUnknown(v)
    /\ op' = "HashType::Unknown"
    /\ UNCHANGED <<data, build, result>>

Digest ==
    /\ op \in {"HashType::from", "HashType::Unknown"}
    /\ result' = digest(val, data)
    /\ op' = "HashType::digest"
    /\ UNCHANGED <<data, build, wire, val>>

NextHash == HashTypeFromU8 \/ HashTypeMakeUnknown \/ Digest

SpecHash == InitHash /\ [][NextHash]_vars

\* C16: HashType::digest always returns and never panics: the full digest
\* for Sha1, Sha256 and Sha384, an error for None and Unknown(_), and an
\* error value (not an abort) for Sha256Truncated.
C16_DigestAlwaysReturns ==
    op = "HashType::digest" =>
        /\ result.tag # "Panic"
        /\ val.tag \in {"Sha1", "Sha256", "Sha384"} =>
              /\ result.tag = "Ok"
              /\ result.val.input = data
        /\ val.tag \in {"None", "Unknown", "Sha256Truncated"} => result.tag = "Err"

\* the part of C16 that leaves Sha256Truncated aside
C16_ImplementedOrError ==
    (op = "HashType::digest" /\ val.tag # "Sha256Truncated") =>
        /\ val.tag \in {"Sha1", "Sha256", "Sha384"} =>
              result = Ok(RingDigest(CASE val.tag = "Sha1" -> "SHA1_FOR_LEGACY_USE_ONLY"
                                       [] val.tag = "Sha256" -> "SHA256"
                                       [] val.tag = "Sha384" -> "SHA384", data))
        /\ val.tag \in {"None", "Unknown"} => result = Err("hasher not implemented")

---------------------------------------------------------------------------
(* python-packaging/src/licensing.rs: component flavors.  A String is the  *)
(* sequence of its bytes.                                                  *)

Flavor(variant, name) == [variant |-> variant, name |-> name]

FlavorVariants ==
    { "PythonDistribution", "PythonStandardLibraryModule",
      "PythonStandardLibraryExtensionModule", "PythonExtensionModule",
      "PythonModule", "Library", "RustCrate" }

\* ComponentFlavor::python_module_name
python_module_name(self) ==
    IF self.variant \in { "PythonStandardLibraryModule",
                          "PythonStandardLibraryExtensionModule",
                          "PythonExtensionModule", "PythonModule" }
    THEN Some(self.name)
    ELSE None

\* ComponentFlavor::is_python_standard_library
is_python_standard_library(self) ==
    self.variant \in { "PythonStandardLibraryModule",
                       "PythonStandardLibraryExtensionModule",
                       "PythonExtensionModule" }

ComponentFlavor_eq_Derived(self, other) == self = other

\* impl PartialEq for ComponentFlavor
ComponentFlavor_eq(self, other) ==
    LET a == python_module_name(self)
        b == python_module_name(other)
    IN  IF a.some /\ b.some THEN a.v = b.v
        ELSE IF a.some \/ b.some THEN FALSE
        ELSE /\ self.variant = other.variant
             /\ self.variant \in {"PythonDistribution", "Library", "RustCrate"}
             /\ self.name = other.name

---------------------------------------------------------------------------
(* SpecFlavor: three flavors are drawn and compared with each other.  val  *)
(* holds the three flavors, result the outcomes of ==.                     *)

\* "a", "b", "a.b"
NameSamples == { <<97>>, <<98>>, <<97, 46, 98>> }

FlavorSamples == { Flavor(v, n) : v \in FlavorVariants, n \in NameSamples }

InitFlavor ==
    /\ val \in FlavorSamples \X FlavorSamples \X FlavorSamples
    /\ data = <<>>
    /\ build = "release"
    /\ result = NoResult
    /\ op = "none"
    /\ wire = <<0, 0>>

\* result[i][j] is val[i] == val[j]
FlavorEq ==
    /\ op = "none"
    /\ result' = Ok([i \in 1..3 |-> [j \in 1..3 |-> ComponentFlavor_eq(val[i], val[j])]])
    /\ op' = "ComponentFlavor::eq"
    /\ UNCHANGED <<data, build, wire, val>>

NextFlavor == FlavorEq

SpecFlavor == InitFlavor /\ [][NextFlavor]_vars

ModuleVariants ==
    { "PythonStandardLibraryModule", "PythonStandardLibraryExtensionModule",
      "PythonExtensionModule", "PythonModule" }

\* C17: two flavors that both carry a Python module name are equal iff the
\* names are equal, whatever the variants; a flavor with a module name never
\* equals one without; two flavors without are equal iff they are the same
\* variant with the same name; == is reflexive, symmetric and transitive.
C17_FlavorEquivalence ==
    op = "ComponentFlavor::eq" =>
        /\ \A i, j \in 1..3 :
              LET a == val[i]
                  b == val[j]
                  eq == result.val[i][j]
              IN  IF a.variant \in ModuleVariants /\ b.variant \in ModuleVariants
                  THEN eq <=> a.name = b.name
                  ELSE IF a.variant \in ModuleVariants \/ b.variant \in ModuleVariants
                  THEN ~eq
                  ELSE eq <=> (a.variant = b.variant /\ a.name = b.name)
        /\ \A i \in 1..3 : result.val[i][i]
        /\ \A i, j \in 1..3 : result.val[i][j] <=> result.val[j][i]
        /\ \A i, j, k \in 1..3 :
              (result.val[i][j] /\ result.val[j][k]) => result.val[i][k]

\* three flavors of distinct variants: two modules of one name and a library
\* of that name
C17_Witness ==
    /\ op = "ComponentFlavor::eq"
    /\ val[1] = Flavor("PythonStandardLibraryModule", <<97>>)
    /\ val[2] = Flavor("PythonModule", <<97>>)
    /\ val[3] = Flavor("Library", <<97>>)
    /\ result.val[1][2]
    /\ ~result.val[2][3]

\* ---------------------------------------------------------------------------
\* python-packaging/src/licensing.rs: license values, licensed components and
\* the conversion of a PackageLicenseInfo.  A String is the sequence of its
\* bytes, so that the ordering of a BTreeSet<String> is the byte-wise
\* lexicographic ordering the code gets.
\* ---------------------------------------------------------------------------

RECURSIVE StrLt(_, _)
\* a < b for Rust strings (byte-wise lexicographic, a proper prefix is less)
StrLt(a, b) ==
    IF b = <<>> THEN FALSE
    ELSE IF a = <<>> THEN TRUE
    ELSE IF a[1] # b[1] THEN a[1] < b[1]
    ELSE StrLt(Tail(a), Tail(b))

RECURSIVE SortedStrings(_)
\* the elements of a BTreeSet<String> in iteration order
SortedStrings(S) ==
    IF S = {} THEN <<>>
    ELSE LET m == CHOOSE x \in S : \A y \in S \ {x} : StrLt(x, y)
         IN  <<m>> \o SortedStrings(S \ {m})

RECURSIVE StrJoin(_, _)
\* [String]::join(sep)
StrJoin(parts, sep) ==
    IF parts = <<>> THEN <<>>
    ELSE IF Len(parts) = 1 THEN parts[1]
    ELSE parts[1] \o sep \o StrJoin(Tail(parts), sep)

\* format!("({})", s)
Parenthesised(s) == <<40>> \o s \o <<41>>

StrRange(s) == { s[i] : i \in DOMAIN s }

\* "MIT", "Apache-2.0", "MIT License", "Apache License 2.0", " OR ",
\* "LicenseRef-"
S_MIT == <<77, 73, 84>>
S_Apache_2_0 == <<65, 112, 97, 99, 104, 101, 45, 50, 46, 48>>
S_MIT_License == <<77, 73, 84, 32, 76, 105, 99, 101, 110, 115, 101>>
S_Apache_License_2_0 ==
    <<65, 112, 97, 99, 104, 101, 32, 76, 105, 99, 101, 110, 115, 101, 32, 50, 46, 48>>
S_OR == <<32, 79, 82, 32>>
S_LicenseRef == <<76, 105, 99, 101, 110, 115, 101, 82, 101, 102, 45>>

\* The part of the spdx crate's license table (spdx::identifiers::LICENSES)
\* the sample terms touch: <<short identifier, full name>>.
LICENSES == { <<S_MIT, S_MIT_License>>, <<S_Apache_2_0, S_Apache_License_2_0>> }

\* spdx::license_id: the table entry whose short identifier is s
spdx_license_id(s) ==
    IF \E l \in LICENSES : l[1] = s THEN Some(s) ELSE None

\* the find_map over LICENSES of the conversion: the short identifier of the
\* entry whose full name is s
spdx_full_name(s) ==
    IF \E l \in LICENSES : l[2] = s
    THEN Some((CHOOSE l \in LICENSES : l[2] = s)[1])
    ELSE None

\* nesting depth of parentheses before position i
ParenDepth(s, i) ==
    Cardinality({ k \in 1..(i - 1) : s[k] = 40 })
    - Cardinality({ k \in 1..(i - 1) : s[k] = 41 })

\* positions of an " OR " outside every parenthesis
TopLevelOrs(s) ==
    { i \in 1..(Len(s) - 3) : SubSeq(s, i, i + 3) = S_OR /\ ParenDepth(s, i) = 0 }

\* a license requirement of an expression: a table identifier or a
\* LicenseRef-<idstring>
IsLicenseRef(s) ==
    /\ Len(s) > Len(S_LicenseRef)
    /\ SubSeq(s, 1, Len(S_LicenseRef)) = S_LicenseRef
    /\ \A k \in (Len(S_LicenseRef) + 1)..Len(s) : s[k] \notin {32, 40, 41}

ParseBoth(l, r) ==
    IF l.tag = "Ok" /\ r.tag = "Ok" THEN Ok(l.val \o r.val) ELSE Err("ParseError")

RECURSIVE ParseReqs(_)
\* The requirements of an SPDX expression, left to right, for the expressions
\* built from identifiers, LicenseRef-s, parentheses and OR; every other text
\* is a parse error.  known is req.license.id().is_some().
ParseReqs(s) ==
    IF TopLevelOrs(s) # {}
    THEN LET i == CHOOSE x \in TopLevelOrs(s) : \A y \in TopLevelOrs(s) : x <= y
         IN  ParseBoth(ParseReqs(SubSeq(s, 1, i - 1)),
                       ParseReqs(SubSeq(s, i + 4, Len(s))))
    ELSE IF Len(s) >= 2 /\ s[1] = 40 /\ s[Len(s)] = 41
    THEN ParseReqs(SubSeq(s, 2, Len(s) - 1))
    ELSE IF spdx_license_id(s).some
    THEN Ok(<< [name |-> s, known |-> TRUE] >>)
    ELSE IF IsLicenseRef(s)
    THEN Ok(<< [name |-> s, known |-> FALSE] >>)
    ELSE Err("ParseError")

ExpressionOf(s, reqs) ==
    IF reqs.tag = "Ok" THEN Ok([text |-> s, reqs |-> reqs.val]) ELSE reqs

\* spdx::Expression::parse: the text is kept, the requirements are what two
\* expressions are compared by
Expression_parse(s) == ExpressionOf(s, ParseReqs(s))

\* Expression::evaluate with the closure of new_spdx: the operators of the
\* expressions above are all OR
Expression_evaluate_known(e) == \E k \in DOMAIN e.reqs : e.reqs[k].known

LicenseFlavor_None == [flavor |-> "None"]
LicenseFlavor_PublicDomain == [flavor |-> "PublicDomain"]
LicenseFlavor_Spdx(e) == [flavor |-> "Spdx", expression |-> e]
LicenseFlavor_OtherExpression(e) == [flavor |-> "OtherExpression", expression |-> e]
LicenseFlavor_Unknown(terms) == [flavor |-> "Unknown", terms |-> terms]

LicensedComponent_new(flavor, license) ==
    [flavor |-> flavor, license |-> license,
     source_location |-> "NotSet", license_texts |-> <<>>]

new_spdx_of(flavor, parsed) ==
    IF parsed.tag # "Ok" THEN parsed
    ELSE Ok(LicensedComponent_new(flavor,
               IF Expression_evaluate_known(parsed.val)
               THEN LicenseFlavor_Spdx(parsed.val)
               ELSE LicenseFlavor_OtherExpression(parsed.val)))

LicensedComponent_new_spdx(flavor, spdx_expression) ==
    new_spdx_of(flavor, Expression_parse(spdx_expression))

RECURSIVE add_license_texts(_, _)
\* add_license_text for each text in turn
add_license_texts(component, texts) ==
    IF texts = <<>> THEN component
    ELSE add_license_texts(
             [component EXCEPT !.license_texts = Append(@, texts[1])],
             Tail(texts))

\* what one listed term inserts into spdx_license_ids, None when it goes to
\* non_spdx_licenses
SpdxRendering_Parenthesised(s) ==
    IF spdx_license_id(s).some THEN Some(Parenthesised(spdx_license_id(s).v))
    ELSE IF Expression_parse(s).tag = "Ok" THEN Some(Parenthesised(s))
    ELSE IF spdx_full_name(s).some THEN Some(Parenthesised(spdx_full_name(s).v))
    ELSE None

SpdxRendering(s) ==
    IF spdx_license_id(s).some THEN Some(Parenthesised(spdx_license_id(s).v))
    ELSE IF Expression_parse(s).tag = "Ok" THEN Some(Parenthesised(s))
    ELSE IF spdx_full_name(s).some THEN Some(spdx_full_name(s).v)
    ELSE None

WithTexts(component, texts) ==
    IF component.tag # "Ok" THEN component
    ELSE Ok(add_license_texts(component.val, texts))

\* impl TryInto<LicensedComponent> for PackageLicenseInfo
PackageLicenseInfo_try_into(self) ==
    LET component_flavor == Flavor("PythonModule", self.package)
        terms == StrRange(self.metadata_licenses \o self.classifier_licenses)
        spdx_license_ids ==
            { SpdxRendering(s).v : s \in { t \in terms : SpdxRendering(t).some } }
        non_spdx_licenses == { t \in terms : ~SpdxRendering(t).some }
        expression == StrJoin(SortedStrings(spdx_license_ids), S_OR)
    IN  WithTexts(
            IF self.is_public_domain
            THEN Ok(LicensedComponent_new(component_flavor, LicenseFlavor_PublicDomain))
            ELSE IF self.metadata_licenses # <<>> \/ self.classifier_licenses # <<>>
            THEN IF non_spdx_licenses = {}
                 THEN LicensedComponent_new_spdx(component_flavor, expression)
                 ELSE Ok(LicensedComponent_new(component_flavor,
                            LicenseFlavor_Unknown(SortedStrings(non_spdx_licenses))))
            ELSE Ok(LicensedComponent_new(component_flavor, LicenseFlavor_None)),
            self.license_texts \o self.notice_texts)

\* ---------------------------------------------------------------------------
\* SpecLicenseInfo: a PackageLicenseInfo is filled field by field and then
\* converted.  val is the PackageLicenseInfo (kept after the conversion, which
\* consumes it), result the outcome of try_into; data, build and wire are not
\* used.
\* ---------------------------------------------------------------------------

MaxMetadata == 2
MaxClassifier == 1
MaxTexts == 1

\* "foo", "a"
PackageSamples == { <<102, 111, 111>>, <<97>> }

\* "MIT", "MIT OR Apache-2.0", "Apache License 2.0", "LicenseRef-x",
\* "Unknown", "Unknown 2"
TermSamples ==
    { S_MIT,
      <<77, 73, 84, 32, 79, 82, 32, 65, 112, 97, 99, 104, 101, 45, 50, 46, 48>>,
      S_Apache_License_2_0,
      <<76, 105, 99, 101, 110, 115, 101, 82, 101, 102, 45, 120>>,
      <<85, 110, 107, 110, 111, 119, 110>>,
      <<85, 110, 107, 110, 111, 119, 110, 32, 50>> }

\* "L", "N"
LicenseTextSample == <<76>>
NoticeTextSample == <<78>>

InitLicenseInfo ==
    /\ val \in { [package |-> p, version |-> <<>>, metadata_licenses |-> <<>>,
                  classifier_licenses |-> <<>>, license_texts |-> <<>>,
                  notice_texts |-> <<>>, is_public_domain |-> FALSE]
                 : p \in PackageSamples }
    /\ data = <<>>
    /\ build = "release"
    /\ result = NoResult
    /\ op = "none"
    /\ wire = <<0, 0>>

PushMetadataLicense ==
    /\ op = "none"
    /\ Len(val.metadata_licenses) < MaxMetadata
    /\ \E t \in TermSamples :
          val' = [val EXCEPT !.metadata_licenses = Append(@, t)]
    /\ UNCHANGED <<data, build, result, op, wire>>

PushClassifierLicense ==
    /\ op = "none"
    /\ Len(val.classifier_licenses) < MaxClassifier
    /\ \E t \in TermSamples :
          val' = [val EXCEPT !.classifier_licenses = Append(@, t)]
    /\ UNCHANGED <<data, build, result, op, wire>>

PushLicenseText ==
    /\ op = "none"
    /\ Len(val.license_texts) < MaxTexts
    /\ val' = [val EXCEPT !.license_texts = Append(@, LicenseTextSample)]
    /\ UNCHANGED <<data, build, result, op, wire>>

PushNoticeText ==
    /\ op = "none"
    /\ Len(val.notice_texts) < MaxTexts
    /\ val' = [val EXCEPT !.notice_texts = Append(@, NoticeTextSample)]
    /\ UNCHANGED <<data, build, result, op, wire>>

SetPublicDomain ==
    /\ op = "none"
    /\ ~val.is_public_domain
    /\ val' = [val EXCEPT !.is_public_domain = TRUE]
    /\ UNCHANGED <<data, build, result, op, wire>>

TryInto ==
    /\ op = "none"
    /\ result' = PackageLicenseInfo_try_into(val)
    /\ op' = "PackageLicenseInfo::try_into"
    /\ UNCHANGED <<data, build, wire, val>>

NextLicenseInfo ==
    \/ PushMetadataLicense
    \/ PushClassifierLicense
    \/ PushLicenseText
    \/ PushNoticeText
    \/ SetPublicDomain
    \/ TryInto

SpecLicenseInfo == InitLicenseInfo /\ [][NextLicenseInfo]_vars

ListedTerms == StrRange(val.metadata_licenses \o val.classifier_licenses)

Recognised(t) ==
    \/ spdx_license_id(t).some
    \/ Expression_parse(t).tag = "Ok"
    \/ spdx_full_name(t).some

\* the operand a recognised term contributes to the expression text
OperandText(t) ==
    IF spdx_license_id(t).some THEN <<40>> \o t \o <<41>>
    ELSE IF Expression_parse(t).tag = "Ok" THEN <<40>> \o t \o <<41>>
    ELSE spdx_full_name(t).v

\* the license requirements a recognised term stands for
OperandReqs(t) ==
    IF spdx_license_id(t).some THEN << [name |-> t, known |-> TRUE] >>
    ELSE IF Expression_parse(t).tag = "Ok" THEN Expression_parse(t).val.reqs
    ELSE << [name |-> spdx_full_name(t).v, known |-> TRUE] >>

RECURSIVE ConcatReqs(_)
ConcatReqs(terms) ==
    IF terms = <<>> THEN <<>>
    ELSE OperandReqs(terms[1]) \o ConcatReqs(Tail(terms))

\* the parts of C18 outside the SPDX case: the flavor, the license texts, and
\* the PublicDomain, None and Unknown cases
C18_Common ==
    /\ result.tag = "Ok"
    /\ result.val.flavor = Flavor("PythonModule", val.package)
    /\ result.val.license_texts = val.license_texts \o val.notice_texts
    /\ val.is_public_domain => result.val.license = LicenseFlavor_PublicDomain
    /\ (~val.is_public_domain /\ ListedTerms = {})
          => result.val.license = LicenseFlavor_None
    /\ (~val.is_public_domain /\ \E t \in ListedTerms : ~Recognised(t))
          => result.val.license =
                LicenseFlavor_Unknown(
                    SortedStrings({ t \in ListedTerms : ~Recognised(t) }))

SpdxCase ==
    /\ ~val.is_public_domain
    /\ ListedTerms # {}
    /\ \A t \in ListedTerms : Recognised(t)

\* C18 (as stated): converting a PackageLicenseInfo gives a component of
\* flavor PythonModule(package) whose license is PublicDomain when the flag is
\* set; else, with terms listed, the OR of the distinct recognised terms in
\* the sorted order of the terms when every term is recognised, and
\* Unknown(sorted distinct unrecognised terms) otherwise; else None; and whose
\* license texts are license_texts followed by notice_texts.
C18_OrOfSortedTerms ==
    op = "PackageLicenseInfo::try_into" =>
        /\ C18_Common
        /\ SpdxCase =>
              /\ result.val.license.flavor \in {"Spdx", "OtherExpression"}
              /\ result.val.license.expression.reqs =
                    ConcatReqs(SortedStrings(ListedTerms))

\* C18 (amended): as above, but in the SPDX case the operands are ordered by
\* their text in the expression, "(id)" or "(term)" for a term that is an SPDX
\* identifier or parses as an expression and the bare identifier for a term
\* that is an SPDX full name: the expression is the " OR " join of the
\* distinct operand texts in sorted order, so every operand that came from a
\* full name follows every parenthesised one.
C18_OrOfSortedOperands ==
    op = "PackageLicenseInfo::try_into" =>
        /\ C18_Common
        /\ SpdxCase =>
              /\ result.val.license.flavor \in {"Spdx", "OtherExpression"}
              /\ result.val.license.expression.text =
                    StrJoin(SortedStrings({ OperandText(t) : t \in ListedTerms }), S_OR)

\* "MIT" and "Apache License 2.0" are listed: the expression is
\* "(MIT) OR Apache-2.0"
C18_Witness ==
    /\ op = "PackageLicenseInfo::try_into"
    /\ SpdxCase
    /\ ListedTerms = { S_MIT, S_Apache_License_2_0 }
    /\ result.tag = "Ok"
    /\ result.val.license.flavor = "Spdx"
    /\ result.val.license.expression.text =
          <<40>> \o S_MIT \o <<41>> \o S_OR \o S_Apache_2_0
    /\ result.val.license_texts = <<LicenseTextSample, NoticeTextSample>>

\* ---------------------------------------------------------------------------
\* LicensedComponents: a BTreeMap<ComponentFlavor, LicensedComponent>, held as
\* the sequence of its entries [k, v] in key order.
\* ---------------------------------------------------------------------------

ordinal_value(self) ==
    CASE self.variant = "PythonDistribution" -> 0
      [] self.variant = "PythonStandardLibraryModule" -> 1
      [] self.variant = "PythonStandardLibraryExtensionModule" -> 2
      [] self.variant = "PythonExtensionModule" -> 3
      [] self.variant = "PythonModule" -> 4
      [] self.variant = "Library" -> 5
      [] self.variant = "RustCrate" -> 6

\* impl Display for ComponentFlavor: "Python stdlib module ", "Python stdlib
\* extension ", "Python extension module ", "Python module ", "library ",
\* "Rust crate " before the name, the bare name for a distribution
ComponentFlavor_to_string(self) ==
    CASE self.variant = "PythonDistribution" -> self.name
      [] self.variant = "PythonStandardLibraryModule" ->
            <<80, 121, 116, 104, 111, 110, 32, 115, 116, 100, 108, 105, 98, 32,
              109, 111, 100, 117, 108, 101, 32>> \o self.name
      [] self.variant = "PythonStandardLibraryExtensionModule" ->
            <<80, 121, 116, 104, 111, 110, 32, 115, 116, 100, 108, 105, 98, 32,
              101, 120, 116, 101, 110, 115, 105, 111, 110, 32>> \o self.name
      [] self.variant = "PythonExtensionModule" ->
            <<80, 121, 116, 104, 111, 110, 32, 101, 120, 116, 101, 110, 115,
              105, 111, 110, 32, 109, 111, 100, 117, 108, 101, 32>> \o self.name
      [] self.variant = "PythonModule" ->
            <<80, 121, 116, 104, 111, 110, 32, 109, 111, 100, 117, 108, 101, 32>>
            \o self.name
      [] self.variant = "Library" ->
            <<108, 105, 98, 114, 97, 114, 121, 32>> \o self.name
      [] self.variant = "RustCrate" ->
            <<82, 117, 115, 116, 32, 99, 114, 97, 116, 101, 32>> \o self.name

StrCmp(a, b) ==
    IF a = b THEN "Equal" ELSE IF StrLt(a, b) THEN "Less" ELSE "Greater"

\* impl PartialOrd / Ord for ComponentFlavor
ComponentFlavor_cmp(self, other) ==
    IF python_module_name(self).some /\ python_module_name(other).some
    THEN StrCmp(python_module_name(self).v, python_module_name(other).v)
    ELSE IF ordinal_value(self) # ordinal_value(other)
    THEN IF ordinal_value(self) < ordinal_value(other) THEN "Less" ELSE "Greater"
    ELSE StrCmp(ComponentFlavor_to_string(self), ComponentFlavor_to_string(other))

\* derived PartialEq for LicenseFlavor; two spdx Expressions are equal when
\* their requirements are
LicenseFlavor_eq(a, b) ==
    /\ a.flavor = b.flavor
    /\ CASE a.flavor \in {"Spdx", "OtherExpression"} ->
               a.expression.reqs = b.expression.reqs
         [] a.flavor = "Unknown" -> a.terms = b.terms
         [] OTHER -> TRUE

is_spdx(self) == self.license.flavor = "Spdx"

BTreeMap_contains_key(map, key) ==
    \E i \in DOMAIN map : ComponentFlavor_cmp(map[i].k, key) = "Equal"

\* BTreeMap::insert: an entry whose key compares Equal keeps its key and gets
\* the new value; otherwise the entry goes to its place in key order
BTreeMap_insert(map, key, value) ==
    IF BTreeMap_contains_key(map, key)
    THEN [i \in DOMAIN map |->
             IF ComponentFlavor_cmp(map[i].k, key) = "Equal"
             THEN [k |-> map[i].k, v |-> value]
             ELSE map[i]]
    ELSE LET below == Cardinality({ i \in DOMAIN map :
                                      ComponentFlavor_cmp(map[i].k, key) = "Less" })
         IN  SubSeq(map, 1, below)
             \o << [k |-> key, v |-> value] >>
             \o SubSeq(map, below + 1, Len(map))

add_component(self, component) ==
    BTreeMap_insert(self, component.flavor, component)

\* the collection after the call and what the call returns
add_spdx_only_component(self, component) ==
    IF is_spdx(component)
    THEN [self |-> add_component(self, component), ret |-> Ok(<<>>)]
    ELSE [self |-> self,
          ret |-> Err("component has non-SPDX license identifiers")]

has_python_module(self, name) ==
    BTreeMap_contains_key(self, Flavor("PythonModule", name))

RECURSIVE add_missing_python_modules(_, _)
add_missing_python_modules(self, modules) ==
    IF modules = <<>> THEN self
    ELSE add_missing_python_modules(
             IF ~has_python_module(self, modules[1])
             THEN add_component(self,
                      LicensedComponent_new(Flavor("PythonModule", modules[1]),
                                            LicenseFlavor_None))
             ELSE self,
             Tail(modules))

\* self.components.values().find(|c| matches!(c.flavor(), PythonDistribution(_)))
FindDistribution(self) ==
    LET hits == { i \in DOMAIN self : self[i].v.flavor.variant = "PythonDistribution" }
    IN  IF hits = {} THEN None ELSE Some(self[Min(hits)].v)

\* str::contains('.')
ContainsDot(name) == \E i \in DOMAIN name : name[i] = 46

\* the filter closure of normalize_python_modules
NormalizeKeeps(k, v, distribution) ==
    /\ ~(/\ is_python_standard_library(k)
         /\ distribution.some
         /\ LicenseFlavor_eq(v.license, distribution.v.license))
    /\ ~(/\ python_module_name(k).some
         /\ ContainsDot(python_module_name(k).v))

FilterEntries(self, distribution) ==
    LET Keep(e) == NormalizeKeeps(e.k, e.v, distribution)
    IN  SelectSeq(self, Keep)

normalize_python_modules(self) == FilterEntries(self, FindDistribution(self))

\* ---------------------------------------------------------------------------
\* SpecComponents: a LicensedComponents that starts empty and is changed by
\* its four mutating methods.  val is the map, op the last method called,
\* result what it returned (add_spdx_only_component), data the map as it was
\* before the last normalize_python_modules (empty after any other method);
\* build and wire are not used.
\* ---------------------------------------------------------------------------

MaxModules == 2

\* "a", "a.b"
ModuleNameSamples == { <<97>>, <<97, 46, 98>> }

\* the distribution "p", the four kinds of module "a" and "a.b", the library
\* "a.b"
ComponentFlavorSamples ==
    { Flavor("PythonDistribution", <<112>>), Flavor("Library", <<97, 46, 98>>) }
    \cup { Flavor(v, n) : v \in ModuleVariants, n \in ModuleNameSamples }

\* no license, and the SPDX expression "MIT"
LicenseSamples ==
    { LicenseFlavor_None, LicenseFlavor_Spdx(Expression_parse(S_MIT).val) }

ComponentSamples ==
    { LicensedComponent_new(f, l) : f \in ComponentFlavorSamples, l \in LicenseSamples }

ModuleLists ==
    UNION { [1..n -> ModuleNameSamples] : n \in 0..MaxModules }

InitComponents ==
    /\ val = <<>>
    /\ data = <<>>
    /\ build = "release"
    /\ result = NoResult
    /\ op = "none"
    /\ wire = <<0, 0>>

AddComponent ==
    /\ \E c \in ComponentSamples : val' = add_component(val, c)
    /\ op' = "add_component"
    /\ result' = NoResult
    /\ data' = <<>>
    /\ UNCHANGED <<build, wire>>

AddSpdxOnlyComponent ==
    /\ \E c \in ComponentSamples :
          /\ val' = add_spdx_only_component(val, c).self
          /\ result' = add_spdx_only_component(val, c).ret
    /\ op' = "add_spdx_only_component"
    /\ data' = <<>>
    /\ UNCHANGED <<build, wire>>

AddMissingPythonModules ==
    /\ \E modules \in ModuleLists : val' = add_missing_python_modules(val, modules)
    /\ op' = "add_missing_python_modules"
    /\ result' = NoResult
    /\ data' = <<>>
    /\ UNCHANGED <<build, wire>>

NormalizePythonModules ==
    /\ val' = normalize_python_modules(val)
    /\ op' = "normalize_python_modules"
    /\ result' = NoResult
    /\ data' = val
    /\ UNCHANGED <<build, wire>>

NextComponents ==
    \/ AddComponent
    \/ AddSpdxOnlyComponent
    \/ AddMissingPythonModules
    \/ NormalizePythonModules

SpecComponents == InitComponents /\ [][NextComponents]_vars

\* the license of the Python distribution component of a collection
DistributionOf(map) ==
    { map[i].v : i \in { j \in DOMAIN map : map[j].v.flavor.variant = "PythonDistribution" } }

\* (a) of C19: a standard library module whose license is the distribution's
IsStdlibWithDistributionLicense(c, map) ==
    /\ c.flavor.variant \in
          {"PythonStandardLibraryModule", "PythonStandardLibraryExtensionModule"}
    /\ \E d \in DistributionOf(map) : LicenseFlavor_eq(c.license, d.license)

\* (b) of C19: a component whose Python module name contains a '.'
IsDottedModule(c) ==
    /\ c.flavor.variant \in ModuleVariants
    /\ \E i \in DOMAIN c.flavor.name : c.flavor.name[i] = 46

ClaimedNormalForm(map) ==
    LET Stays(e) == ~IsStdlibWithDistributionLicense(e.v, map) /\ ~IsDottedModule(e.v)
    IN  SelectSeq(map, Stays)

\* C19: normalize_python_modules removes exactly (a) the standard library
\* modules (PythonStandardLibraryModule, PythonStandardLibraryExtensionModule)
\* whose license equals the license of the Python distribution component and
\* (b) the components whose Python module name contains a '.', and keeps every
\* other component unchanged; without a distribution only (b) applies;
\* applying it twice gives what applying it once gives.
C19_RemovesStdlibAndDotted ==
    op = "normalize_python_modules" =>
        /\ val = ClaimedNormalForm(data)
        /\ normalize_python_modules(val) = val

\* the second half of C19 on its own: normalizing twice is normalizing once
C19_Idempotent ==
    op = "normalize_python_modules" => normalize_python_modules(val) = val

\* C19 where no extension module is stored and every key is the flavor of its
\* component
C19_WithoutExtensionModules ==
    (/\ op = "normalize_python_modules"
     /\ \A i \in DOMAIN data :
           /\ data[i].k = data[i].v.flavor
           /\ data[i].k.variant # "PythonExtensionModule")
    => val = ClaimedNormalForm(data)

\* a distribution and an extension module of the same license, every key the
\* flavor of its component: the extension module is removed
C19_ExtensionModuleRemoved ==
    /\ op = "normalize_python_modules"
    /\ Len(data) = 2
    /\ \A i \in DOMAIN data : data[i].k = data[i].v.flavor
    /\ data[1].k = Flavor("PythonDistribution", <<112>>)
    /\ data[2].k = Flavor("PythonExtensionModule", <<97>>)
    /\ LicenseFlavor_eq(data[1].v.license, data[2].v.license)
    /\ Len(val) = 1

\* ---------------------------------------------------------------------------
\* SpecUnsorted: super-blob buffers whose index records are not in the order
\* of the blobs they point at.  The variables and the actions are those of
\* Spec; only the buffers it starts from differ.
\* ---------------------------------------------------------------------------

\* the permutations of 1..n other than the identity
IndexOrders(n) ==
    { p \in [1..n -> 1..n] :
        /\ \A i, j \in 1..n : i # j => p[i] # p[j]
        /\ \E i \in 1..n : p[i] # i }

\* the blobs bs laid out in order behind an index whose i-th record points at
\* the blob order[i]
UnsortedSuperBlobBytes(bs, order) ==
    LET n == Len(bs)
        blobs == [i \in 1..n |-> BlobBytes(bs[i].magic, bs[i].payload)]
        start(i) == 12 + 8 * n + Len(Flatten(SubSeq(blobs, 1, i - 1)))
        index == [i \in 1..n |->
                     U32Bytes(bs[order[i]].typ) \o U32Bytes(WNat(start(order[i])))]
        total == 12 + 8 * n + Len(Flatten(blobs))
    IN  U32Bytes(CSMAGIC_EMBEDDED_SIGNATURE) \o U32Bytes(WNat(total))
            \o U32Bytes(WNat(n)) \o Flatten(index) \o Flatten(blobs)

InitUnsorted ==
    /\ \E n \in 2..MaxCount : \E bs \in [1..n -> BlobSpecs] :
          \E order \in IndexOrders(n) :
             data = UnsortedSuperBlobBytes(bs, order)
    /\ build = "release"
    /\ result = NoResult
    /\ op = "none"
    /\ wire = <<0, 0>>
    /\ val = Idle

SpecUnsorted == InitUnsorted /\ [][Next]_vars

\* the buffer holds a super-blob header and all the index records it counts
IndexReadable ==
    /\ CanRead(data, 0, 12)
    /\ ReadU32(data, 0) = CSMAGIC_EMBEDDED_SIGNATURE
    /\ WLe(ReadU32(data, 8), WNat((Len(data) - 12) \div 8))

IndexCount == ToNat(ReadU32(data, 8))

\* the next-larger offset among all index records, the buffer length for the
\* record of the largest offset
SortedEndOffset(i) ==
    LET larger == { IndexOffset(j) : j \in { k \in 1..IndexCount :
                                              WLt(IndexOffset(i), IndexOffset(k)) } }
    IN  IF larger = {} THEN WNat(Len(data))
        ELSE CHOOSE x \in larger : \A y \in larger : WLe(x, y)

\* every record frames a blob header when the end offsets are taken in offset
\* order
WellFramedWhenSorted ==
    \A i \in 1..IndexCount :
        /\ SliceOk(data, IndexOffset(i), SortedEndOffset(i))
        /\ ToNat(SortedEndOffset(i)) - ToNat(IndexOffset(i)) >= 8

IndexOutOfOrder ==
    \E i \in 1..IndexCount : \E j \in (i + 1)..IndexCount :
        WLt(IndexOffset(j), IndexOffset(i))

\* C20: when the index records are not in ascending offset order,
\* EmbeddedSignature::from_bytes still decodes the super-blob: the data of each
\* entry ends at the next-larger offset among all records (the buffer length
\* for the largest offset), and each BlobEntry keeps its index position.
C20_DecodesUnsortedIndex ==
    (/\ op = "EmbeddedSignature::from_bytes"
     /\ IndexReadable
     /\ IndexOutOfOrder
     /\ WellFramedWhenSorted)
    => /\ result.tag = "Ok"
       /\ Len(result.val.blobs) = IndexCount
       /\ \A i \in 1..IndexCount :
             /\ result.val.blobs[i].index = i - 1
             /\ result.val.blobs[i].offset = ToNat(IndexOffset(i))
             /\ result.val.blobs[i].data =
                   Slice(data, ToNat(IndexOffset(i)), ToNat(SortedEndOffset(i)))

\* what the decoder does with an index out of order: a record followed by one
\* of a smaller offset gives a slice that starts behind its end
C20_UnsortedIndexPanics ==
    (/\ op = "EmbeddedSignature::from_bytes"
     /\ IndexReadable
     /\ IndexOutOfOrder
     /\ WellFramedWhenSorted)
    => result = Panic("slice index out of range")

\* ---------------------------------------------------------------------------
\* A blob whose header advertises more bytes than the slice framed for it.
\* ---------------------------------------------------------------------------

\* the slice handed to BlobData::from_bytes holds a header whose length field
\* exceeds the slice
AdvertisedLengthExceedsSpan ==
    /\ Len(data) >= 8
    /\ WLt(WNat(Len(data)), ReadU32(data, 4))

\* C21: when a blob header's advertised length is larger than the slice
\* framed for the blob, BlobData::from_bytes returns Err with a BadOffset
\* error and does not panic.
C21_BadOffsetOnOverlongLength ==
    (op = "BlobData::from_bytes" /\ AdvertisedLengthExceedsSpan)
        => result = Err("BadOffset")

\* what the dispatcher does with such a blob, whatever its magic and in both
\* build profiles: data[0..length] is out of range
C21_OverlongLengthPanics ==
    (op = "BlobData::from_bytes" /\ AdvertisedLengthExceedsSpan)
        => result = Panic("slice end index out of range")

\* the same through find_slot_parsed on a decoded super-blob: an entry whose
\* header length exceeds its span makes the call panic
C21_FindSlotParsedPanics ==
    (/\ op = "find_slot_parsed"
     /\ \E i \in DOMAIN val.blobs :
           /\ val.blobs[i].slot = CodeSigningSlot_from(wire)
           /\ \A j \in 1..(i - 1) : val.blobs[j].slot # CodeSigningSlot_from(wire)
           /\ WLt(WNat(Len(val.blobs[i].data)), val.blobs[i].length))
    => result = Panic("slice end index out of range")

\* ---------------------------------------------------------------------------
\* The hashes of a decoded code directory.
\* ---------------------------------------------------------------------------

\* C22: in a decoded code directory, code_hashes[j] is the blob bytes
\* [hash_offset + j*hash_size, +hash_size) for every j < n_code_slots, and
\* special_hashes maps CodeSigningSlot::from(i) to the blob bytes
\* [hash_offset - hash_size*n_special_slots + i*hash_size, +hash_size) for
\* every i < n_special_slots: the entry keyed by slot value 0 is the one
\* farthest from hash_offset, and distinct i never share a key.
C22_HashBytes ==
    DecodedCD =>
        LET hash_size == ReadU8(data, 36)
            hash_offset == ReadU32(data, 16)
            n_special == ReadU32(data, 24)
            n_code == ReadU32(data, 28)
        IN
        /\ hash_offset[1] = 0 /\ n_special[1] = 0 /\ n_code[1] = 0
        /\ Len(result.val.code_hashes) = ToNat(n_code)
        /\ \A j \in 0..(ToNat(n_code) - 1) :
              LET from == ToNat(hash_offset) + j * hash_size IN
              /\ from + hash_size <= Len(data)
              /\ result.val.code_hashes[j + 1] = Slice(data, from, from + hash_size)
        /\ DOMAIN result.val.special_hashes =
              { CodeSigningSlot_from(WNat(i)) : i \in 0..(ToNat(n_special) - 1) }
        /\ \A i, k \in 0..(ToNat(n_special) - 1) :
              i # k => CodeSigningSlot_from(WNat(i)) # CodeSigningSlot_from(WNat(k))
        /\ \A i \in 0..(ToNat(n_special) - 1) :
              LET from == ToNat(hash_offset) - hash_size * ToNat(n_special)
                             + i * hash_size
              IN
              /\ from >= 0
              /\ from + hash_size <= Len(data)
              /\ result.val.special_hashes[CodeSigningSlot_from(WNat(i))] =
                    Slice(data, from, from + hash_size)

\* two special and two code hashes: slot 0 (CodeDirectory) holds the first two
\* bytes of the hash region, slot 1 (Info) the next two, then the code hashes
C22_Witness ==
    /\ DecodedCD
    /\ ReadU32(data, 24) = <<0, 2>>
    /\ ReadU32(data, 28) = <<0, 2>>
    /\ result.val.special_hashes[Slot("CodeDirectory")] = <<201, 202>>
    /\ result.val.special_hashes[Slot("Info")] = <<203, 204>>
    /\ result.val.code_hashes = << <<205, 206>>, <<207, 208>> >>

\* the decoder gets as far as the page-size byte: the header is that of a code
\* directory and the 40 bytes up to that byte are there
PageSizeRead ==
    /\ op = "CodeDirectoryBlob::from_bytes"
    /\ CanRead(data, 0, 40)
    /\ ReadU32(data, 0) = CSMAGIC_CODEDIRECTORY

\* 2^e as a u32, for e < 32
PowerOfTwo(e) == IF e < 16 THEN <<0, 2 ^ e>> ELSE <<2 ^ (e - 16), 0>>

\* C23: for every value e of the page-size exponent byte the decoder neither
\* panics on the power nor stores a wrapped value: the page_size of a decoded
\* code directory is 2^e.  (An overflow panic with e < 32 comes from the
\* special-hash offset, not from the power.)
C23_PageSizeIsPowerOfTwo ==
    PageSizeRead =>
        LET e == ReadU8(data, 39) IN
        /\ (result = Panic("attempt to multiply with overflow")) => e < 32
        /\ (result.tag = "Ok") =>
              (e < 32 /\ result.val.f.page_size = PowerOfTwo(e))

\* the part of C23 that holds: an exponent below 32 gives 2^e
C23_SmallExponent ==
    (PageSizeRead /\ ReadU8(data, 39) < 32 /\ result.tag = "Ok") =>
        result.val.f.page_size = PowerOfTwo(ReadU8(data, 39))

\* an exponent of 32 or more: the power overflows u32, which panics with
\* overflow checks and leaves 0 without
C23_LargeExponent ==
    (PageSizeRead /\ ReadU8(data, 39) >= 32) =>
        IF build = "debug"
        THEN result = Panic("attempt to multiply with overflow")
        ELSE (result.tag = "Ok") => (result.val.f.page_size = <<0, 0>>)

\* ---------------------------------------------------------------------------
\* SpecExpr: buffers handed to Expression::from_bytes.  A buffer starts as the
\* wire form of an expression, possibly followed by more bytes; it can be cut
\* short byte by byte or have one aligned u32 overwritten; the decoder is then
\* applied.  data is the buffer, result the outcome; build, wire and val are
\* not used.
\* ---------------------------------------------------------------------------

MaxIdent == 5
MaxDepth == 3

\* tag 2 followed by an identifier of k bytes "a", "b", ...
IdentBytes(k) == U32Bytes(<<0, 2>>) \o [i \in 1..k |-> 96 + i]

\* the operators without operands, tags 0..16 but 2, 6 and 7
LeafTags == { <<0, t>> : t \in (0..16) \ {2, 6, 7} }

RECURSIVE AndChain(_)
\* And(True, And(True, .. False)), k operators deep
AndChain(k) ==
    IF k = 0 THEN U32Bytes(<<0, 0>>)
    ELSE U32Bytes(<<0, 6>>) \o ExprTrue \o AndChain(k - 1)

RECURSIVE OrChain(_)
\* Or(Or(.. True, False), False), k operators deep
OrChain(k) ==
    IF k = 0 THEN ExprTrue
    ELSE U32Bytes(<<0, 7>>) \o OrChain(k - 1) \o U32Bytes(<<0, 0>>)

ExprBuffers ==
    { IdentBytes(k) : k \in 0..MaxIdent }
    \cup { U32Bytes(<<0, 2>>) \o <<97, 98, 99, 100, 255>> }
    \cup { U32Bytes(t) : t \in LeafTags }
    \cup { ExprOther17, ExprOther17 \o <<1, 2, 3>>, ExprTrue \o <<9>> }
    \cup { AndChain(k) : k \in 1..MaxDepth }
    \cup { OrChain(k) : k \in 1..MaxDepth }
    \cup { ExprAndTrueIdentX, ExprOrFalseAppleAnchor,
           U32Bytes(<<0, 6>>) \o ExprTrue \o IdentBytes(MaxIdent) }

ExprCorruptValues ==
    { <<0, 0>>, <<0, 2>>, <<0, 6>>, <<0, 7>>, <<0, 17>>, <<65535, 65535>> }

InitExpr ==
    /\ data \in ExprBuffers
    /\ build = "release"
    /\ result = NoResult
    /\ op = "none"
    /\ wire = <<0, 0>>
    /\ val = Idle

CorruptExpr ==
    /\ op = "none"
    /\ \E w \in 0..((Len(data) \div 4) - 1) : \E v \in ExprCorruptValues :
          /\ ReadU32(data, 4 * w) # v
          /\ data' = SubSeq(data, 1, 4 * w) \o U32Bytes(v)
                        \o SubSeq(data, 4 * w + 5, Len(data))
    /\ result' = NoResult
    /\ op' = "corrupt"
    /\ UNCHANGED <<build, wire, val>>

DecodeExpr ==
    /\ op \in {"none", "truncate", "corrupt"}
    /\ result' = Expression_from_bytes(data)
    /\ op' = "Expression::from_bytes"
    /\ UNCHANGED <<data, build, wire, val>>

NextExpr == Truncate \/ CorruptExpr \/ DecodeExpr

SpecExpr == InitExpr /\ [][NextExpr]_vars

DecodedExpr == op = "Expression::from_bytes"

\* C24: for a buffer whose leading u32 tag is 2, Expression::from_bytes
\* returns Ident(s) with s all the bytes that follow the 4-byte tag up to the
\* end of the buffer, decoded as UTF-8, or the UTF-8 error; for identifiers of
\* every length, 0 to 3 bytes included.
C24_IdentIsRestOfBuffer ==
    (DecodedExpr /\ CanRead(data, 0, 4) /\ ReadU32(data, 0) = <<0, 2>>) =>
        LET s == Slice(data, 4, Len(data)) IN
        IF Utf8Valid(s)
        THEN /\ result.tag = "Ok"
             /\ result.val.expr = [node |-> "Ident", s |-> s]
        ELSE result = Err("Utf8Error")

\* what the decoder does for tag 2: the buffer is advanced past the tag and
\* then sliced at offset 4 once more, so the identifier starts 8 bytes into
\* the buffer, and fewer than 4 bytes after the tag are out of range
C24_IdentSkipsFourBytes ==
    (DecodedExpr /\ CanRead(data, 0, 4) /\ ReadU32(data, 0) = <<0, 2>>) =>
        IF Len(data) < 8
        THEN result = Panic("slice start index out of range")
        ELSE LET s == Slice(data, 8, Len(data)) IN
             IF Utf8Valid(s)
             THEN /\ result.tag = "Ok"
                  /\ result.val.expr = [node |-> "Ident", s |-> s]
             ELSE result = Err("Utf8Error")

\* the leading tag is none of 0..=16
UnknownTag ==
    /\ CanRead(data, 0, 4)
    /\ ReadU32(data, 0) \notin { <<0, t>> : t \in 0..16 }

\* C25: for a buffer whose leading u32 tag is not one of 0..=16,
\* Expression::from_bytes returns Ok((Other(tag), residual)) with an empty
\* residual; it is not an error.
C25_OtherWithEmptyResidual ==
    (DecodedExpr /\ UnknownTag) =>
        result = Ok([expr |-> [node |-> "Other", tag |-> ReadU32(data, 0)],
                     rest |-> <<>>])

\* what the decoder returns for an unknown tag: Other(tag) and all the bytes
\* that follow the tag
C25_OtherKeepsResidual ==
    (DecodedExpr /\ UnknownTag) =>
        result = Ok([expr |-> [node |-> "Other", tag |-> ReadU32(data, 0)],
                     rest |-> Slice(data, 4, Len(data))])

\* the leading tag is 6 (And) or 7 (Or)
BinaryTag ==
    /\ CanRead(data, 0, 4)
    /\ ReadU32(data, 0) \in { <<0, 6>>, <<0, 7>> }

\* the result of a binary operator from the outcomes of its operands
BinaryOutcome(node, a, b) ==
    IF a.tag # "Ok" THEN a
    ELSE IF b.tag # "Ok" THEN b
    ELSE Ok([expr |-> [node |-> node, a |-> a.val.expr, b |-> b.val.expr],
             rest |-> b.val.rest])

\* the operands of a binary operator are decoded one after the other, the
\* second from what the first left, and the first failure is the result
OperandsInSequence ==
    (DecodedExpr /\ BinaryTag) =>
        LET a == Expression_from_bytes(Slice(data, 4, Len(data))) IN
        result = BinaryOutcome(IF ReadU32(data, 0) = <<0, 6>> THEN "And" ELSE "Or",
                               a,
                               IF a.tag = "Ok"
                               THEN Expression_from_bytes(a.val.rest) ELSE a)

\* C26: for tags 6 (And) and 7 (Or), Expression::from_bytes decodes the first
\* operand from the bytes after the tag, the second from the residual of the
\* first, and returns the residual of the second; an error in either operand
\* is the error of the whole; hence the wire forms of And(True, Ident("x"))
\* and Or(False, AppleAnchor) decode to exactly those trees.
C26_AndOrDecodeBothOperands ==
    /\ OperandsInSequence
    /\ (DecodedExpr /\ data = ExprAndTrueIdentX) =>
          /\ result.tag = "Ok"
          /\ result.val.expr =
                [node |-> "And", a |-> [node |-> "True"],
                 b |-> [node |-> "Ident", s |-> <<120>>]]
    /\ (DecodedExpr /\ data = ExprOrFalseAppleAnchor) =>
          /\ result.tag = "Ok"
          /\ result.val.expr =
                [node |-> "Or", a |-> [node |-> "False"],
                 b |-> [node |-> "AppleAnchor"]]

\* the second tree of C26 on its own
C26_OrFalseAppleAnchor ==
    (DecodedExpr /\ data = ExprOrFalseAppleAnchor) =>
        result = Ok([expr |-> [node |-> "Or", a |-> [node |-> "False"],
                               b |-> [node |-> "AppleAnchor"]],
                     rest |-> <<>>])


\* ---- the calls Expression::from_bytes makes on itself ----
\* One record per invocation in the call tree of Expression::from_bytes(d):
\* its nesting depth, its buffer and its caller's buffer.  And/Or (tags 6, 7)
\* call once on the bytes after the tag and, if that succeeds, once more on
\* the residual the first call returned; no other tag recurses.
RECURSIVE ExpressionCallsFrom(_, _, _)
ExpressionCallsFrom_AdvanceTwo(d, caller, depth) ==
    {[depth |-> depth, buf |-> d, caller |-> caller]} \cup
    IF CanRead(d, 0, 4) /\ ReadU32(d, 0) \in { <<0, 6>>, <<0, 7>> }
    THEN ExpressionCallsFrom(Slice(d, 2, Len(d)), d, depth + 1)
    ELSE {}

RECURSIVE SecondOperandCalls(_, _, _)
ExpressionCallsFrom(d, caller, depth) ==
    {[depth |-> depth, buf |-> d, caller |-> caller]} \cup
    IF CanRead(d, 0, 4) /\ ReadU32(d, 0) \in { <<0, 6>>, <<0, 7>> }
    THEN ExpressionCallsFrom(Slice(d, 4, Len(d)), d, depth + 1) \cup
         SecondOperandCalls(Expression_from_bytes(Slice(d, 4, Len(d))), d, depth + 1)
    ELSE {}

SecondOperandCalls(a, caller, depth) ==
    IF a.tag = "Ok" THEN ExpressionCallsFrom(a.val.rest, caller, depth) ELSE {}

ExpressionCalls(d) == ExpressionCallsFrom(d, d, 0)

\* C27: Expression::from_bytes terminates on every finite buffer: every call
\* returns, each recursive call is made on a buffer at least 4 bytes shorter
\* than its caller's, the recursion depth is at most len/4, and a call on a
\* buffer of fewer than 4 bytes makes no further call and fails with the
\* read error.
C27_DescentIsBounded ==
    DecodedExpr =>
        /\ result.tag \in {"Ok", "Err", "Panic"}
        /\ \A c \in ExpressionCalls(data) :
              /\ (c.depth > 0) => (Len(c.buf) + 4 <= Len(c.caller))
              /\ c.depth <= Len(data) \div 4
              /\ (Len(c.buf) < 4) =>
                    /\ Expression_from_bytes(c.buf) = ScrollError
                    /\ \A n \in ExpressionCalls(data) :
                          (n.depth > c.depth) => (n.caller # c.buf)

\* a descent of MaxDepth nested calls that ends on a buffer too short to
\* hold a tag
C27_Witness ==
    /\ DecodedExpr
    /\ result = ScrollError
    /\ \E c \in ExpressionCalls(data) : c.depth = MaxDepth /\ Len(c.buf) < 4


\* ---- C28: the segments of a Requirements blob ----
\* the buffer starts with a Requirements blob that holds its advertised
\* length, its count and all of its (type, offset) pairs
RequirementsFramed ==
    /\ CanRead(data, 0, 8)
    /\ ReadU32(data, 0) = CSMAGIC_REQUIREMENTS
    /\ SliceOk(data, <<0, 0>>, ReadU32(data, 4))
    /\ ToNat(ReadU32(data, 4)) >= 12
    /\ WLe(ReadU32(data, 8), WNat((ToNat(ReadU32(data, 4)) - 12) \div 8))

\* the blob, its count and the frame of its i-th (type, offset) pair
RequirementsData == Slice(data, 0, ToNat(ReadU32(data, 4)))
RequirementsCount == ToNat(ReadU32(RequirementsData, 8))
SegmentOffset(i) == ReadBlobIndex(RequirementsData, 12 + 8 * (i - 1)).offset
SegmentEnd(i) ==
    IF i = RequirementsCount THEN WNat(Len(RequirementsData))
    ELSE SegmentOffset(i + 1)
SegmentFramed(i) == SliceOk(RequirementsData, SegmentOffset(i), SegmentEnd(i))
SegmentData(i) ==
    Slice(RequirementsData, ToNat(SegmentOffset(i)), ToNat(SegmentEnd(i)))

\* the i-th frame is the first one whose dispatch does not succeed
FirstFailure(i) ==
    /\ \A j \in 1..i : SegmentFramed(j)
    /\ \A j \in 1..(i - 1) : BlobData_from_bytes(SegmentData(j), build).tag = "Ok"
    /\ BlobData_from_bytes(SegmentData(i), build).tag = "Err"

\* C28: RequirementsBlob::from_bytes reads the count at offset 8 and then
\* count (type, offset) pairs; on success it holds exactly count segments,
\* the i-th being what BlobData::from_bytes returns for the bytes from the
\* i-th offset to the next offset (the blob end for the last); a count of 0
\* gives an empty requirements blob; an error of a nested blob is the error
\* of the whole.
C28_SegmentsAreDispatchedFrames ==
    (op = "BlobData::from_bytes" /\ RequirementsFramed) =>
        /\ (result.tag = "Ok") =>
              /\ result.val.variant = "Requirements"
              /\ Len(result.val.blob.segments) = RequirementsCount
              /\ \A i \in 1..RequirementsCount :
                    /\ SegmentFramed(i)
                    /\ BlobData_from_bytes(SegmentData(i), build) =
                          Ok(result.val.blob.segments[i])
        /\ (RequirementsCount = 0) =>
              result = Ok([variant |-> "Requirements", blob |-> [segments |-> <<>>]])
        /\ \A i \in 1..RequirementsCount :
              FirstFailure(i) =>
                  result = BlobData_from_bytes(SegmentData(i), build)

\* two Requirement blobs decoded out of one Requirements blob
C28_Witness ==
    /\ op = "BlobData::from_bytes"
    /\ RequirementsFramed
    /\ RequirementsCount = MaxSegments
    /\ result.tag = "Ok"
    /\ \A i \in 1..MaxSegments :
          result.val.blob.segments[i] =
              [variant |-> "Requirement",
               blob |-> [expression |->
                            [node |-> "Or", a |-> [node |-> "False"],
                             b |-> [node |-> "AppleAnchor"]]]]

\* a nested blob fails with an error and the whole blob fails with it
C28_NestedErrorReached ==
    /\ op = "BlobData::from_bytes"
    /\ RequirementsFramed
    /\ \E i \in 1..RequirementsCount : FirstFailure(i)


\* ---- C29: the signature window ----
\* the command and the segment find_signature_data uses
SignatureFound ==
    /\ op = "find_signature_data"
    /\ CodeSignatureCommands(val) # {}
    /\ LinkeditSegments(val) # {}
UsedCommand == val.load_commands[Min(CodeSignatureCommands(val))]
UsedLinkedit == val.segments[FirstLinkedit(val)]

\* dataoff >= fileoff and [dataoff - fileoff, + datasize) lies in the data
WindowFits ==
    /\ ~USizeLt(UsedCommand.dataoff, UsedLinkedit.fileoff)
    /\ UsedCommand.dataoff - UsedLinkedit.fileoff + UsedCommand.datasize
          <= Len(UsedLinkedit.data)

\* the offsets and the bytes of a window that fits
WindowReturned ==
    /\ result.tag = "Ok"
    /\ result.val # None
    /\ result.val.v.signature_start_offset =
          UsedCommand.dataoff - UsedLinkedit.fileoff
    /\ result.val.v.signature_end_offset =
          result.val.v.signature_start_offset + UsedCommand.datasize
    /\ result.val.v.signature_data =
          Slice(UsedLinkedit.data, result.val.v.signature_start_offset,
                result.val.v.signature_end_offset)

\* C29: with a code-signature load command and a __LINKEDIT segment,
\* find_signature_data returns start = dataoff - fileoff, end = start +
\* datasize and the bytes data[start..end] of the segment; when dataoff <
\* fileoff or the window does not fit in the segment data it returns a
\* BadOffset error, without wrapping the subtraction and without a panic.
C29_WindowOrBadOffset ==
    SignatureFound =>
        IF WindowFits THEN WindowReturned ELSE result = Err("BadOffset")

\* a window that fits is returned as claimed
C29_WindowWhenFits ==
    (SignatureFound /\ WindowFits) => WindowReturned

\* what happens otherwise: with dataoff < fileoff a build with overflow checks
\* panics in the subtraction and a build without wraps it, and the wrapped
\* window is returned if it happens to lie in the data; every other window
\* that does not fit panics in the slice
C29_OutOfRangePanicsOrWraps ==
    (SignatureFound /\ ~WindowFits) =>
        IF build = "debug" /\ USizeLt(UsedCommand.dataoff, UsedLinkedit.fileoff)
        THEN result = Panic("attempt to subtract with overflow")
        ELSE \/ result = Panic("slice index out of range")
             \/ /\ USizeLt(UsedCommand.dataoff, UsedLinkedit.fileoff)
                /\ WindowReturned

\* a wrapped subtraction whose window is returned
C29_WrappedWindowReturned ==
    /\ SignatureFound
    /\ USizeLt(UsedCommand.dataoff, UsedLinkedit.fileoff)
    /\ result.tag = "Ok"


\* ---- C30: what the collection keeps true ----
\* BTreeMap::get: the values stored under a key that compares Equal
BTreeMap_get(map, key) ==
    { map[i].v : i \in { j \in DOMAIN map : ComponentFlavor_cmp(map[j].k, key) = "Equal" } }

\* no two stored components have equal flavors
DistinctFlavors(map) ==
    \A i, j \in DOMAIN map :
        (i # j) => ~ComponentFlavor_eq(map[i].v.flavor, map[j].v.flavor)

\* add_component(c) leaves c as the stored component for c's flavor
AddComponentStores(map) ==
    \A c \in ComponentSamples :
        BTreeMap_get(add_component(map, c), c.flavor) = {c}

\* add_spdx_only_component leaves the collection unchanged when it returns Err
SpdxOnlyErrUnchanged(map) ==
    \A c \in ComponentSamples :
        (add_spdx_only_component(map, c).ret.tag = "Err") =>
            (add_spdx_only_component(map, c).self = map)

\* add_missing_python_modules never replaces a component already present
MissingKeepsPresent(map) ==
    \A modules \in ModuleLists :
        \A i \in DOMAIN map :
            \E j \in DOMAIN add_missing_python_modules(map, modules) :
                add_missing_python_modules(map, modules)[j] = map[i]

\* C30: in every state reachable from an empty LicensedComponents by
\* add_component, add_spdx_only_component, add_missing_python_modules and
\* normalize_python_modules, no two stored components have equal flavors,
\* each map key equals the flavor of the component stored under it,
\* add_component(c) leaves c as the stored component for c's flavor,
\* add_spdx_only_component leaves the collection unchanged when it returns
\* Err, and add_missing_python_modules never replaces a component that was
\* already present.
C30_CollectionInvariants ==
    /\ DistinctFlavors(val)
    /\ \A i \in DOMAIN val : val[i].k = val[i].v.flavor
    /\ AddComponentStores(val)
    /\ SpdxOnlyErrUnchanged(val)
    /\ MissingKeepsPresent(val)

\* the same with the key only required to compare equal to the flavor of its
\* component (the same module name whatever the variant)
C30_KeysCompareEqual ==
    /\ DistinctFlavors(val)
    /\ \A i \in DOMAIN val :
          /\ ComponentFlavor_eq(val[i].k, val[i].v.flavor)
          /\ ComponentFlavor_cmp(val[i].k, val[i].v.flavor) = "Equal"
    /\ \A i, j \in DOMAIN val :
          (i < j) => (ComponentFlavor_cmp(val[i].k, val[j].k) = "Less")
    /\ AddComponentStores(val)
    /\ SpdxOnlyErrUnchanged(val)
    /\ MissingKeepsPresent(val)

\* a key of another variant than the component stored under it
C30_StaleKeyVariant ==
    \E i \in DOMAIN val : val[i].k.variant # val[i].v.flavor.variant

\* a standard library module licensed as the distribution that
\* normalize_python_modules keeps, being stored under a PythonModule key
C30_StaleKeyEscapesNormalize ==
    /\ op = "normalize_python_modules"
    /\ \E i \in DOMAIN val :
          /\ val[i].k.variant = "PythonModule"
          /\ IsStdlibWithDistributionLicense(val[i].v, data)

============================================================================
